---- MODULE Spec2Model ----
(***************************************************************************)
(* A model of prisma-query-tools: parseQuery (src/src/parser.ts),          *)
(* serializeQuery (src/src/serializer.ts) and mergeQueries                 *)
(* (src/src/merge.ts).                                                     *)
(*                                                                         *)
(* JavaScript strings are sequences of one-character strings, so that      *)
(* splitting, trimming, regular-expression matching, numeric parsing and   *)
(* URL escaping are computed character by character.  JavaScript values    *)
(* are records tagged by the field t (the result of typeof, with null and  *)
(* array told apart); a plain object is the sequence of its own            *)
(* enumerable properties in enumeration order.                             *)
(***************************************************************************)
EXTENDS Integers, Sequences, FiniteSets, TLC

VARIABLES phase, raw, result, objectPrototype, queryString,
          reconstructedParams, secondParseResult, rawAfterCall,
          givenOptions, givenConfig, serialized,
          heap, defaultQuery, parsedQuery, mergeOptions, merged, mergeInputs,
          mutation, laterQuery, mergedAgain

\* The state of a use of parseQuery and of the round trip.
parserVars == <<phase, raw, result, objectPrototype, queryString,
                reconstructedParams, secondParseResult, rawAfterCall>>

\* The state of a direct call of serializeQuery.
serializerVars == <<givenOptions, givenConfig, serialized>>

\* The state of a use of mergeQueries.
mergeVars == <<heap, defaultQuery, parsedQuery, mergeOptions, merged, mergeInputs,
               mutation, laterQuery, mergedAgain>>

vars == <<parserVars, serializerVars, mergeVars>>

\* F applied to arg: the way a definition names a value it uses several times.
With(arg, F(_)) == F(arg)

-----------------------------------------------------------------------------
(* Characters and strings                                                  *)

DigitChars == {"0", "1", "2", "3", "4", "5", "6", "7", "8", "9"}

LowerChars == {"a", "b", "c", "d", "e", "f", "g", "h", "i", "j", "k", "l", "m",
               "n", "o", "p", "q", "r", "s", "t", "u", "v", "w", "x", "y", "z"}

UpperChars == {"A", "B", "C", "D", "E", "F", "G", "H", "I", "J", "K", "L", "M",
               "N", "O", "P", "Q", "R", "S", "T", "U", "V", "W", "X", "Y", "Z"}

WhiteSpaceChars == {" ", "\t", "\n", "\r"}

LineTerminatorChars == {"\n", "\r"}

DigitVal(c) ==
  CASE c = "0" -> 0 [] c = "1" -> 1 [] c = "2" -> 2 [] c = "3" -> 3
    [] c = "4" -> 4 [] c = "5" -> 5 [] c = "6" -> 6 [] c = "7" -> 7
    [] c = "8" -> 8 [] c = "9" -> 9

DigitChar(n) ==
  CASE n = 0 -> "0" [] n = 1 -> "1" [] n = 2 -> "2" [] n = 3 -> "3"
    [] n = 4 -> "4" [] n = 5 -> "5" [] n = 6 -> "6" [] n = 7 -> "7"
    [] n = 8 -> "8" [] n = 9 -> "9"

ToLowerChar(c) ==
  CASE c = "A" -> "a" [] c = "B" -> "b" [] c = "C" -> "c" [] c = "D" -> "d"
    [] c = "E" -> "e" [] c = "F" -> "f" [] c = "G" -> "g" [] c = "H" -> "h"
    [] c = "I" -> "i" [] c = "J" -> "j" [] c = "K" -> "k" [] c = "L" -> "l"
    [] c = "M" -> "m" [] c = "N" -> "n" [] c = "O" -> "o" [] c = "P" -> "p"
    [] c = "Q" -> "q" [] c = "R" -> "r" [] c = "S" -> "s" [] c = "T" -> "t"
    [] c = "U" -> "u" [] c = "V" -> "v" [] c = "W" -> "w" [] c = "X" -> "x"
    [] c = "Y" -> "y" [] c = "Z" -> "z" [] OTHER -> c

ToLowerCase(s) == [i \in 1..Len(s) |-> ToLowerChar(s[i])]

AllIn(s, chars) == \A i \in 1..Len(s) : s[i] \in chars

Includes(s, c) == \E i \in 1..Len(s) : s[i] = c

Drop(s, n) == SubSeq(s, n + 1, Len(s))

Take(s, n) == SubSeq(s, 1, n)

StartsWith(s, p) == Len(s) >= Len(p) /\ Take(s, Len(p)) = p

\* Index of the first occurrence of character c in s, 0 when there is none.
IndexOf(s, c) ==
  IF Includes(s, c) THEN CHOOSE i \in 1..Len(s) : s[i] = c /\ \A j \in 1..(i - 1) : s[j] # c
  ELSE 0

\* String.prototype.split(c) for a one-character separator.
RECURSIVE Split(_, _)
Split(s, c) ==
  LET i == IndexOf(s, c)
  IN IF i = 0 THEN <<s>> ELSE <<Take(s, i - 1)>> \o Split(Drop(s, i), c)

\* Array.prototype.join(sep).
RECURSIVE Join(_, _)
Join(parts, sep) ==
  IF Len(parts) = 0 THEN << >>
  ELSE IF Len(parts) = 1 THEN parts[1]
  ELSE parts[1] \o sep \o Join(Tail(parts), sep)

RECURSIVE TrimStart(_)
TrimStart(s) ==
  IF Len(s) > 0 /\ s[1] \in WhiteSpaceChars THEN TrimStart(Tail(s)) ELSE s

RECURSIVE TrimEnd(_)
TrimEnd(s) ==
  IF Len(s) > 0 /\ s[Len(s)] \in WhiteSpaceChars THEN TrimEnd(Take(s, Len(s) - 1)) ELSE s

\* String.prototype.trim().
Trim(s) == TrimEnd(TrimStart(s))

-----------------------------------------------------------------------------
(* JavaScript values                                                       *)

Undefined == [t |-> "undefined"]

Null == [t |-> "null"]

Bool(b) == [t |-> "boolean", v |-> b]

Str(s) == [t |-> "string", v |-> s]

\* A plain object: the sequence of its own properties [k |-> key, v |-> value].
Obj(entries) == [t |-> "object", v |-> entries]

Arr(items) == [t |-> "array", v |-> items]

\* A function object, e.g. an inherited method of Object.prototype.
Fn == [t |-> "function"]

Prop(k, v) == [k |-> k, v |-> v]

\* A finite number m * 10^e, normalised so that m is not a multiple of 10.
RECURSIVE NormalizeFin(_, _)
NormalizeFin(m, e) ==
  IF m = 0 THEN [k |-> "fin", m |-> 0, e |-> 0]
  ELSE IF m % 10 = 0 THEN NormalizeFin(m \div 10, e + 1)
  ELSE [k |-> "fin", m |-> m, e |-> e]

Num(m, e) == [t |-> "number", v |-> NormalizeFin(m, e)]

IntNum(n) == Num(n, 0)

NaN == [t |-> "number", v |-> [k |-> "nan", m |-> 0, e |-> 0]]

Infinity == [t |-> "number", v |-> [k |-> "inf", m |-> 1, e |-> 0]]

NegInfinity == [t |-> "number", v |-> [k |-> "inf", m |-> -1, e |-> 0]]

IsNaN(n) == n.v.k = "nan"

\* typeof value
TypeOf(value) ==
  CASE value.t = "null" -> "object"
    [] value.t = "array" -> "object"
    [] value.t = "prototype" -> "object"
    [] OTHER -> value.t

-----------------------------------------------------------------------------
(* Number(string) and String(number)                                       *)
(*                                                                         *)
(* A finite number is held exactly as m * 10^e; this is what Number and    *)
(* String compute for a literal of at most nine significant digits, since  *)
(* a double reproduces up to 15 significant decimal digits exactly.        *)

\* The leading digits of the largest double, 1.7976931348623157e308.
MaxDoubleLead == <<"1", "7", "9", "7", "6", "9", "3", "1", "3">>

IsDigits(s) == Len(s) > 0 /\ AllIn(s, DigitChars)

RECURSIVE DigitsToInt(_)
DigitsToInt(ds) ==
  IF Len(ds) = 0 THEN 0
  ELSE DigitsToInt(Take(ds, Len(ds) - 1)) * 10 + DigitVal(ds[Len(ds)])

RECURSIVE IntToDigits(_)
IntToDigits(n) ==
  IF n < 10 THEN <<DigitChar(n)>>
  ELSE IntToDigits(n \div 10) \o <<DigitChar(n % 10)>>

Abs(n) == IF n < 0 THEN -n ELSE n

Zeros(n) == [i \in 1..n |-> "0"]

RECURSIVE StripLeadingZeros(_)
StripLeadingZeros(ds) ==
  IF Len(ds) > 0 /\ ds[1] = "0" THEN StripLeadingZeros(Tail(ds)) ELSE ds

RadixDigitVal(c) ==
  CASE c \in DigitChars -> DigitVal(c)
    [] ToLowerChar(c) = "a" -> 10 [] ToLowerChar(c) = "b" -> 11
    [] ToLowerChar(c) = "c" -> 12 [] ToLowerChar(c) = "d" -> 13
    [] ToLowerChar(c) = "e" -> 14 [] ToLowerChar(c) = "f" -> 15
    [] OTHER -> 99

RECURSIVE RadixToInt(_, _)
RadixToInt(ds, base) ==
  IF Len(ds) = 0 THEN 0
  ELSE RadixToInt(Take(ds, Len(ds) - 1), base) * base + RadixDigitVal(ds[Len(ds)])

RadixBase(c) ==
  CASE ToLowerChar(c) = "x" -> 16 [] ToLowerChar(c) = "o" -> 8
    [] ToLowerChar(c) = "b" -> 2 [] OTHER -> 0

\* 0x.., 0o.., 0b.. literals (NonDecimalIntegerLiteral).
IsRadixLiteral(u) ==
  /\ Len(u) >= 3 /\ u[1] = "0" /\ RadixBase(u[2]) # 0
  /\ \A i \in 3..Len(u) : RadixDigitVal(u[i]) < RadixBase(u[2])

\* The exponent part after e/E: an optionally signed run of digits.
IsExponent(x) ==
  \/ IsDigits(x)
  \/ Len(x) >= 2 /\ x[1] \in {"+", "-"} /\ IsDigits(Tail(x))

ExponentVal(x) ==
  IF x[1] = "-" THEN -DigitsToInt(Tail(x))
  ELSE IF x[1] = "+" THEN DigitsToInt(Tail(x))
  ELSE DigitsToInt(x)

\* The mantissa: digits, digits.digits, digits. or .digits
IsMantissa(mt) ==
  LET d == IndexOf(mt, ".")
  IN IF d = 0 THEN IsDigits(mt)
     ELSE /\ AllIn(Take(mt, d - 1), DigitChars)
          /\ AllIn(Drop(mt, d), DigitChars)
          /\ Len(mt) > 1

MantissaDigits(mt) ==
  LET d == IndexOf(mt, ".")
  IN IF d = 0 THEN mt ELSE Take(mt, d - 1) \o Drop(mt, d)

MantissaScale(mt) ==
  LET d == IndexOf(mt, ".")
  IN IF d = 0 THEN 0 ELSE Len(mt) - d

ExpIndex(u) ==
  IF Includes(u, "e") /\ (~Includes(u, "E") \/ IndexOf(u, "e") < IndexOf(u, "E"))
  THEN IndexOf(u, "e") ELSE IndexOf(u, "E")

\* Rounding of a decimal 0.D * 10^n to the range of a double: overflow to
\* Infinity above 1.7976931348623157e308, underflow to 0 below 1e-324.
RangeFin(neg, digits, e) ==
  LET ds == StripLeadingZeros(digits)
      n == Len(ds) + e
      lead == DigitsToInt(Take(ds \o Zeros(Len(MaxDoubleLead)), Len(MaxDoubleLead)))
      m == DigitsToInt(ds)
  IN IF Len(ds) = 0 THEN IntNum(0)
     ELSE IF n > 309 \/ (n = 309 /\ lead > DigitsToInt(MaxDoubleLead))
          THEN (IF neg THEN NegInfinity ELSE Infinity)
     ELSE IF n < -323 THEN IntNum(0)
     ELSE Num(IF neg THEN -m ELSE m, e)

\* StrUnsignedDecimalLiteral, with the sign already removed.
UnsignedDecimal(neg, u) ==
  With(ExpIndex(u), LAMBDA x :
    With(<<IF x = 0 THEN u ELSE Take(u, x - 1), IF x = 0 THEN <<"0">> ELSE Drop(u, x)>>,
         LAMBDA parts :
           IF u = <<"I", "n", "f", "i", "n", "i", "t", "y">>
           THEN (IF neg THEN NegInfinity ELSE Infinity)
           ELSE IF IsMantissa(parts[1]) /\ IsExponent(parts[2])
           THEN RangeFin(neg, MantissaDigits(parts[1]),
                         ExponentVal(parts[2]) - MantissaScale(parts[1]))
           ELSE NaN))

\* Number(s) for a string s (StringToNumber).
StringToNumber(s) ==
  With(Trim(s), LAMBDA u :
    IF Len(u) = 0 THEN IntNum(0)
    ELSE IF IsRadixLiteral(u) THEN IntNum(RadixToInt(Drop(u, 2), RadixBase(u[2])))
    ELSE UnsignedDecimal(u[1] = "-", IF u[1] \in {"+", "-"} THEN Tail(u) ELSE u))

\* String(n) for a number n (Number::toString, radix 10).
NumberToString(n) ==
  LET ds == IntToDigits(Abs(n.v.m))
      k == Len(ds)
      pt == k + n.v.e
      sign == IF n.v.m < 0 THEN <<"-">> ELSE << >>
      ex == pt - 1
      exs == (IF ex < 0 THEN <<"-">> ELSE <<"+">>) \o IntToDigits(Abs(ex))
  IN CASE n.v.k = "nan" -> <<"N", "a", "N">>
       [] n.v.k = "inf" -> sign \o <<"I", "n", "f", "i", "n", "i", "t", "y">>
       [] n.v.k = "fin" /\ n.v.m = 0 -> <<"0">>
       [] OTHER ->
            sign \o
            (IF k <= pt /\ pt <= 21 THEN ds \o Zeros(pt - k)
             ELSE IF 0 < pt /\ pt <= 21 THEN Take(ds, pt) \o <<".">> \o Drop(ds, pt)
             ELSE IF -6 < pt /\ pt <= 0 THEN <<"0", ".">> \o Zeros(-pt) \o ds
             ELSE IF k = 1 THEN ds \o <<"e">> \o exs
             ELSE <<ds[1], ".">> \o Tail(ds) \o <<"e">> \o exs)

-----------------------------------------------------------------------------
(* parser.ts: convertValueType                                             *)

\* convertValueType without the comparison String(Number(value)) === value:
\* every string that converts to a number becomes that number.
convertValueTypeUnchecked(value) ==
  IF TypeOf(value) # "string" THEN value
  ELSE IF value.v = <<"t", "r", "u", "e">> THEN Bool(TRUE)
  ELSE IF value.v = <<"f", "a", "l", "s", "e">> THEN Bool(FALSE)
  ELSE With(StringToNumber(value.v), LAMBDA n :
         IF ~IsNaN(n) /\ value.v # << >> THEN n ELSE value)

\* Number(value) for a string value that converts exactly; the model's
\* numbers carry at most nine significant digits.
convertValueType(value) ==
  IF TypeOf(value) # "string" THEN value
  ELSE IF value.v = <<"t", "r", "u", "e">> THEN Bool(TRUE)
  ELSE IF value.v = <<"f", "a", "l", "s", "e">> THEN Bool(FALSE)
  ELSE With(StringToNumber(value.v), LAMBDA n :
         IF ~IsNaN(n) /\ value.v # << >> /\ NumberToString(n) = value.v
         THEN n ELSE value)

-----------------------------------------------------------------------------
(* Property names used by the program                                      *)

strPage == <<"p", "a", "g", "e">>

strLimit == <<"l", "i", "m", "i", "t">>

strSort == <<"s", "o", "r", "t">>

strFields == <<"f", "i", "e", "l", "d", "s">>

strFilters == <<"f", "i", "l", "t", "e", "r", "s">>

strGeneral == <<"g", "e", "n", "e", "r", "a", "l">>

strSelect == <<"s", "e", "l", "e", "c", "t">>

strProto == <<"_", "_", "p", "r", "o", "t", "o", "_", "_">>

strAsc == <<"a", "s", "c">>

strDesc == <<"d", "e", "s", "c">>

strTrue == <<"t", "r", "u", "e">>

strFalse == <<"f", "a", "l", "s", "e">>

strNull == <<"n", "u", "l", "l">>

strUndefined == <<"u", "n", "d", "e", "f", "i", "n", "e", "d">>

strLength == <<"l", "e", "n", "g", "t", "h">>

strSkip == <<"s", "k", "i", "p">>

strTake == <<"t", "a", "k", "e">>

strOrderBy == <<"o", "r", "d", "e", "r", "B", "y">>

strWhere == <<"w", "h", "e", "r", "e">>

strObjectObject == <<"[", "o", "b", "j", "e", "c", "t", " ", "O", "b", "j", "e", "c", "t", "]">>

strFiltersOpen == <<"f", "i", "l", "t", "e", "r", "s", "[">>

\* The non-enumerable methods every object inherits from Object.prototype.
BuiltinNames ==
  <<<<"c", "o", "n", "s", "t", "r", "u", "c", "t", "o", "r">>,
   <<"h", "a", "s", "O", "w", "n", "P", "r", "o", "p", "e", "r", "t", "y">>,
   <<"i", "s", "P", "r", "o", "t", "o", "t", "y", "p", "e", "O", "f">>,
   <<"p", "r", "o", "p", "e", "r", "t", "y", "I", "s", "E", "n", "u", "m", "e", "r", "a", "b", "l", "e">>,
   <<"t", "o", "L", "o", "c", "a", "l", "e", "S", "t", "r", "i", "n", "g">>,
   <<"t", "o", "S", "t", "r", "i", "n", "g">>,
   <<"v", "a", "l", "u", "e", "O", "f">>,
   <<"_", "_", "d", "e", "f", "i", "n", "e", "G", "e", "t", "t", "e", "r", "_", "_">>,
   <<"_", "_", "d", "e", "f", "i", "n", "e", "S", "e", "t", "t", "e", "r", "_", "_">>,
   <<"_", "_", "l", "o", "o", "k", "u", "p", "G", "e", "t", "t", "e", "r", "_", "_">>,
   <<"_", "_", "l", "o", "o", "k", "u", "p", "S", "e", "t", "t", "e", "r", "_", "_">>>>

\* Object.prototype before any call: its methods, none of them enumerable.
PristinePrototype == Obj([i \in 1..Len(BuiltinNames) |-> Prop(BuiltinNames[i], Fn)])

IsBuiltinName(k) == \E i \in 1..Len(BuiltinNames) : BuiltinNames[i] = k

-----------------------------------------------------------------------------
(* Objects: own properties, prototype chain, assignment                    *)

IsObj(value) == value.t = "object"

OwnIndex(o, k) ==
  IF \E i \in 1..Len(o.v) : o.v[i].k = k
  THEN CHOOSE i \in 1..Len(o.v) : o.v[i].k = k
  ELSE 0

HasOwn(o, k) == IsObj(o) /\ OwnIndex(o, k) # 0

OwnGet(o, k) == IF HasOwn(o, k) THEN o.v[OwnIndex(o, k)].v ELSE Undefined

\* Object.keys(o)
OwnKeys(o) == [i \in 1..Len(o.v) |-> o.v[i].k]

OwnKeySet(o) == {o.v[i].k : i \in 1..Len(o.v)}

\* An object whose [[Prototype]] was replaced through the __proto__ setter
\* carries the replacement in the field proto.
HasSwappedProto(o) == IsObj(o) /\ "proto" \in DOMAIN o

WithEntries(o, entries) ==
  IF HasSwappedProto(o) THEN [t |-> "object", v |-> entries, proto |-> o.proto]
  ELSE Obj(entries)

\* Canonical array index: such keys are enumerated first, in numeric order.
IsArrayIndex(k) ==
  /\ IsDigits(k) /\ Len(k) <= Len(MaxDoubleLead)
  /\ (k[1] # "0" \/ Len(k) = 1)

\* Position at which a new own property k is enumerated among entries.
InsertPos(entries, k) ==
  IF ~IsArrayIndex(k) THEN Len(entries) + 1
  ELSE Cardinality({i \in 1..Len(entries) :
                      IsArrayIndex(entries[i].k)
                      /\ DigitsToInt(entries[i].k) < DigitsToInt(k)}) + 1

\* Create or overwrite the own data property k of o.
PutOwn(o, k, value) ==
  IF HasOwn(o, k)
  THEN WithEntries(o, [o.v EXCEPT ![OwnIndex(o, k)] = Prop(k, value)])
  ELSE LET pos == InsertPos(o.v, k)
       IN WithEntries(o, Take(o.v, pos - 1) \o <<Prop(k, value)>> \o Drop(o.v, pos - 1))

\* The object reached from tree by a path of own property names; the path
\* element __proto__ steps into a replaced prototype.
RECURSIVE ValueAt(_, _)
ValueAt(tree, path) ==
  IF Len(path) = 0 THEN tree
  ELSE IF path[1] = strProto THEN ValueAt(tree.proto, Tail(path))
  ELSE ValueAt(OwnGet(tree, path[1]), Tail(path))

RECURSIVE UpdateAt(_, _, _)
UpdateAt(tree, path, sub) ==
  IF Len(path) = 0 THEN sub
  ELSE IF path[1] = strProto
       THEN [t |-> "object", v |-> tree.v, proto |-> UpdateAt(tree.proto, Tail(path), sub)]
  ELSE PutOwn(tree, path[1], UpdateAt(OwnGet(tree, path[1]), Tail(path), sub))

\* A store is the object under construction (own) and Object.prototype (P).
\* A location names an object of the store: a root and a path below it.
OwnRoot == [root |-> "own", path |-> << >>]

ProtoRoot == [root |-> "proto", path |-> << >>]

NullLoc == [root |-> "null", path |-> << >>]

Deref(S, loc) ==
  CASE loc.root = "own" -> ValueAt(S.own, loc.path)
    [] loc.root = "proto" -> ValueAt(S.P, loc.path)
    [] OTHER -> Null

ExtendLoc(loc, k) == [root |-> loc.root, path |-> Append(loc.path, k)]

\* Where current[k] lives for the object at loc: an own property, the
\* prototype itself for k = __proto__, or a property found along the
\* prototype chain; found is the value of (k in current).
RECURSIVE Lookup(_, _, _)
Lookup(S, loc, k) ==
  LET cur == Deref(S, loc)
  IN IF ~IsObj(cur) THEN [found |-> FALSE, loc |-> NullLoc]
     ELSE IF k # strProto /\ HasOwn(cur, k) THEN [found |-> TRUE, loc |-> ExtendLoc(loc, k)]
     ELSE IF HasSwappedProto(cur)
          THEN (IF k = strProto THEN [found |-> TRUE, loc |-> ExtendLoc(loc, strProto)]
                ELSE Lookup(S, ExtendLoc(loc, strProto), k))
     ELSE IF loc = ProtoRoot
          THEN (IF k = strProto THEN [found |-> TRUE, loc |-> NullLoc]
                ELSE [found |-> FALSE, loc |-> NullLoc])
     ELSE IF k = strProto THEN [found |-> TRUE, loc |-> ProtoRoot]
     ELSE IF HasOwn(S.P, k) THEN [found |-> TRUE, loc |-> [root |-> "proto", path |-> <<k>>]]
     ELSE [found |-> FALSE, loc |-> NullLoc]

\* current[k] for the object at loc.
Read(S, loc, k) ==
  LET r == Lookup(S, loc, k)
  IN IF r.found THEN Deref(S, r.loc) ELSE Undefined

StoreUpdate(S, loc, sub) ==
  IF loc.root = "own" THEN [own |-> UpdateAt(S.own, loc.path, sub), P |-> S.P]
  ELSE [own |-> S.own, P |-> UpdateAt(S.P, loc.path, sub)]

\* current[k] = value for the object at loc.  Assigning __proto__ runs the
\* inherited setter: it replaces the prototype when value is an object,
\* does nothing for a primitive, and throws on Object.prototype itself.
Assign(S, loc, k, value) ==
  LET cur == Deref(S, loc)
  IN IF ~IsObj(cur) THEN [S |-> S, threw |-> TRUE]
     ELSE IF k = strProto
          THEN (IF ~IsObj(value) THEN [S |-> S, threw |-> FALSE]
                ELSE IF loc = ProtoRoot THEN [S |-> S, threw |-> TRUE]
                ELSE [S |-> StoreUpdate(S, loc, [t |-> "object", v |-> cur.v, proto |-> value]),
                      threw |-> FALSE])
     ELSE [S |-> StoreUpdate(S, loc, PutOwn(cur, k, value)), threw |-> FALSE]

-----------------------------------------------------------------------------
(* parser.ts: setNestedValue                                               *)

\* The loop of setNestedValue from the object at loc, then the assignment
\* of the converted value under lastKey.
RECURSIVE setNestedWalk(_, _, _, _, _)
setNestedWalk(S, loc, keys, lastKey, value) ==
  IF ~IsObj(Deref(S, loc)) THEN [S |-> S, threw |-> TRUE]
  ELSE IF Len(keys) = 0 THEN Assign(S, loc, lastKey, convertValueType(value))
  ELSE With(Lookup(S, loc, keys[1]), LAMBDA at :
         IF ~at.found \/ TypeOf(Deref(S, at.loc)) # "object"
         THEN With(Assign(S, loc, keys[1], Obj(<< >>)), LAMBDA a :
                IF a.threw THEN a
                ELSE setNestedWalk(a.S, ExtendLoc(loc, keys[1]), Tail(keys), lastKey, value))
         ELSE setNestedWalk(S, at.loc, Tail(keys), lastKey, value))

\* setNestedValue(obj, path, value) with obj the root of the store.
setNestedValue(S, path, value) ==
  With(Split(path, "."), LAMBDA keys :
    setNestedWalk(S, OwnRoot, Take(keys, Len(keys) - 1), keys[Len(keys)], value))

-----------------------------------------------------------------------------
(* Conversions applied by parseQuery to its raw values                     *)

\* String(value)
RECURSIVE ToStr(_)
ToStr(value) ==
  CASE value.t = "string" -> value.v
    [] value.t = "number" -> NumberToString(value)
    [] value.t = "boolean" -> (IF value.v THEN strTrue ELSE strFalse)
    [] value.t = "null" -> strNull
    [] value.t = "undefined" -> strUndefined
    [] value.t = "array" ->
         Join([i \in 1..Len(value.v) |->
                 IF value.v[i].t \in {"null", "undefined"} THEN << >> ELSE ToStr(value.v[i])],
              <<",">>)
    [] OTHER -> strObjectObject

\* Number(value)
ToNumber(value) ==
  CASE value.t = "number" -> value
    [] value.t = "string" -> StringToNumber(value.v)
    [] value.t = "boolean" -> (IF value.v THEN IntNum(1) ELSE IntNum(0))
    [] value.t = "null" -> IntNum(0)
    [] OTHER -> NaN

\* The value of a finite integer number.
ToInt(n) ==
  LET RECURSIVE Pow10(_)
      Pow10(e) == IF e = 0 THEN 1 ELSE 10 * Pow10(e - 1)
  IN n.v.m * Pow10(n.v.e)

IsInteger(n) == n.t = "number" /\ n.v.k = "fin" /\ n.v.e >= 0

\* !!value
Truthy(value) ==
  CASE value.t \in {"undefined", "null"} -> FALSE
    [] value.t = "boolean" -> value.v
    [] value.t = "number" -> ~(value.v.k = "nan" \/ (value.v.k = "fin" /\ value.v.m = 0))
    [] value.t = "string" -> Len(value.v) > 0
    [] OTHER -> TRUE

\* The longest prefix of s made of decimal digits.
RECURSIVE DigitPrefix(_)
DigitPrefix(s) ==
  IF Len(s) > 0 /\ s[1] \in DigitChars THEN <<s[1]>> \o DigitPrefix(Tail(s)) ELSE << >>

\* parseInt(value, 10): leading white space, an optional sign, then digits;
\* whatever follows the digits is ignored.
parseInt(value) ==
  With(TrimStart(ToStr(value)), LAMBDA u :
    With(DigitPrefix(IF Len(u) > 0 /\ u[1] \in {"+", "-"} THEN Tail(u) ELSE u), LAMBDA ds :
      IF Len(ds) = 0 THEN NaN
      ELSE IntNum(IF u[1] = "-" THEN -DigitsToInt(ds) ELSE DigitsToInt(ds))))

-----------------------------------------------------------------------------
(* Reading the raw argument                                                *)

\* raw.page and the like throw a TypeError when raw is null or undefined.
RawThrows(rawArg) == rawArg.t \in {"null", "undefined"}

\* rawArg[k]: own property, else inherited from Object.prototype; a string
\* has its characters and length as own properties.
RawGet(rawArg, k, P) ==
  CASE IsObj(rawArg) -> Read([own |-> rawArg, P |-> P], OwnRoot, k)
    [] rawArg.t = "string" /\ IsArrayIndex(k) /\ DigitsToInt(k) < Len(rawArg.v) ->
         Str(<<rawArg.v[DigitsToInt(k) + 1]>>)
    [] rawArg.t = "string" /\ k = strLength -> IntNum(Len(rawArg.v))
    [] OTHER -> OwnGet(P, k)

\* Keys of P visited by for-in: the enumerable ones, i.e. those added by
\* assignment.
EnumerableKeys(P) ==
  SelectSeq(OwnKeys(P), LAMBDA k : ~IsBuiltinName(k))

\* The keys visited by for (const key in rawArg): own enumerable keys, then
\* the enumerable keys inherited from Object.prototype that are not shadowed.
ForInKeys(rawArg, P) ==
  LET own == CASE IsObj(rawArg) -> OwnKeys(rawArg)
               [] rawArg.t = "string" -> [i \in 1..Len(rawArg.v) |-> IntToDigits(i - 1)]
               [] OTHER -> << >>
  IN own \o SelectSeq(EnumerableKeys(P), LAMBDA k : \A i \in 1..Len(own) : own[i] # k)

\* key.match(/^filters\[(.+)\]$/): the dot of the pattern matches any
\* character but a line terminator.
IsFilterKey(key) ==
  /\ Len(key) >= Len(strFiltersOpen) + 2
  /\ StartsWith(key, strFiltersOpen)
  /\ key[Len(key)] = "]"
  /\ \A i \in (Len(strFiltersOpen) + 1)..(Len(key) - 1) : key[i] \notin LineTerminatorChars

\* match[1]
FilterPath(key) == SubSeq(key, Len(strFiltersOpen) + 1, Len(key) - 1)

\* The loop over the keys of raw: each filter key is stored into the
\* working filters object (the own root of the store).
RECURSIVE filtersLoop(_, _, _)
filtersLoop(rawArg, keys, S) ==
  IF Len(keys) = 0 THEN [S |-> S, threw |-> FALSE]
  ELSE With(IF ~IsFilterKey(keys[1]) THEN [S |-> S, threw |-> FALSE]
            ELSE With(<<FilterPath(keys[1]), RawGet(rawArg, keys[1], S.P)>>, LAMBDA m :
                   IF Includes(m[1], ".") THEN setNestedValue(S, m[1], m[2])
                   ELSE Assign(S, OwnRoot, m[1], convertValueType(m[2]))),
            LAMBDA step :
              IF step.threw THEN step ELSE filtersLoop(rawArg, Tail(keys), step.S))

-----------------------------------------------------------------------------
(* parser.ts: querySchema, as yup applies it under abortEarly: false       *)

WordChars == LowerChars \cup UpperChars \cup DigitChars \cup {"_"}

\* [a-zA-Z0-9_]+
IsToken(s) == Len(s) > 0 /\ AllIn(s, WordChars)

\* [a-zA-Z0-9_]+(:(asc|desc))?
IsSortTerm(term) ==
  LET c == IndexOf(term, ":")
  IN IF c = 0 THEN IsToken(term)
     ELSE IsToken(Take(term, c - 1)) /\ Drop(term, c) \in {strAsc, strDesc}

\* The pattern of sort: one or more terms [a-zA-Z0-9_]+(:(asc|desc))?
\* separated by commas, anchored at both ends.
MatchesSortPattern(s) ==
  LET terms == Split(s, ",")
  IN \A i \in 1..Len(terms) : IsSortTerm(terms[i])

\* /^[a-zA-Z0-9_.]+$/
MatchesFieldPattern(s) == Len(s) > 0 /\ AllIn(s, WordChars \cup {"."})

\* An error list is the errors object: properties [k |-> path, v |-> message].
PutError(errors, k, message) ==
  IF \E i \in 1..Len(errors) : errors[i].k = k
  THEN [i \in 1..Len(errors) |-> IF errors[i].k = k THEN Prop(k, message) ELSE errors[i]]
  ELSE Append(errors, Prop(k, message))

ErrorKeys(errors) == {errors[i].k : i \in 1..Len(errors)}

\* The cast of yup.number(): a string is stripped of white space and
\* converted with unary plus, anything else that is not a number goes
\* through parseFloat.
YupNumberCast(value) ==
  CASE value.t = "number" -> value
    [] value.t = "null" -> Null
    [] value.t = "string" ->
         LET stripped == SelectSeq(value.v, LAMBDA c : c \notin WhiteSpaceChars)
         IN IF Len(stripped) = 0 THEN NaN ELSE StringToNumber(stripped)
    [] OTHER -> NaN

\* yup.number().integer().min(1).typeError(typeMessage) on one field.
YupNumberField(errors, k, value, typeMessage) ==
  IF value.t = "undefined" THEN errors
  ELSE With(YupNumberCast(value), LAMBDA n :
         IF n.t = "null" THEN PutError(errors, k, "cannot be null")
         ELSE IF IsNaN(n) THEN PutError(errors, k, typeMessage)
         ELSE With(IF IsInteger(n) THEN errors ELSE PutError(errors, k, "must be an integer"),
                   LAMBDA e1 :
                     IF /\ n.v.m > 0
                        /\ \/ n.v.k = "inf"
                           \/ n.v.e >= 0
                           \/ Len(IntToDigits(n.v.m)) + n.v.e > 0
                     THEN e1
                     ELSE PutError(e1, k, "must be greater than or equal to 1")))

\* The cast of yup.string(): numbers and booleans are converted to their
\* string form, objects and arrays are left as they are.
YupStringCast(value) ==
  IF value.t \in {"number", "boolean"} THEN Str(ToStr(value)) ELSE value

\* yup.string().matches(pattern, message) on the field sort.
YupSortField(errors, value) ==
  With(YupStringCast(value), LAMBDA c :
    CASE value.t = "undefined" -> errors
      [] c.t = "null" -> PutError(errors, strSort, "cannot be null")
      [] c.t # "string" -> PutError(errors, strSort, "must be a string type")
      [] ~MatchesSortPattern(c.v) ->
           PutError(errors, strSort,
                    "Sort must be in format field:direction (e.g. name:asc,createdAt:desc)")
      [] OTHER -> errors)

\* The path yup gives the error of element i (from 0) of the array fields.
FieldsItemPath(i) == strFields \o <<"[">> \o IntToDigits(i) \o <<"]">>

RECURSIVE YupFieldsItems(_, _, _)
YupFieldsItems(errors, items, i) ==
  IF i > Len(items) THEN errors
  ELSE YupFieldsItems(
         IF items[i].t = "string" /\ ~MatchesFieldPattern(items[i].v)
         THEN PutError(errors, FieldsItemPath(i - 1),
                       "Field names must be alphanumeric with optional dot notation for nested fields")
         ELSE errors,
         items, i + 1)

\* The cast of yup.array(): a string is read as JSON and kept only when it
\* denotes an array; of the JSON arrays only the empty one is modelled.
YupArrayCast(value) ==
  IF value.t = "string"
  THEN (IF SelectSeq(value.v, LAMBDA c : c \notin WhiteSpaceChars) = <<"[", "]">>
        THEN Arr(<< >>) ELSE Null)
  ELSE value

\* yup.array().of(yup.string().matches(pattern, message)) on the field fields.
YupFieldsField(errors, value) ==
  With(YupArrayCast(value), LAMBDA c :
    CASE value.t = "undefined" -> errors
      [] c.t = "null" -> PutError(errors, strFields, "cannot be null")
      [] c.t # "array" -> PutError(errors, strFields, "must be an array type")
      [] OTHER -> YupFieldsItems(errors, c.v, 1))

\* querySchema.validateSync(query, { abortEarly: false }) followed by the
\* copy of every inner error into result.errors under its path.  yup reads
\* the fields of query with ordinary property access, so a field missing
\* from query is taken from Object.prototype.
validateQuery(errors, query, P) ==
  LET Q(k) == Read([own |-> query, P |-> P], OwnRoot, k)
      e1 == YupNumberField(errors, strPage, Q(strPage), "Page must be a positive integer")
      e2 == YupNumberField(e1, strLimit, Q(strLimit), "Limit must be a positive integer")
      e3 == YupSortField(e2, Q(strSort))
  IN YupFieldsField(e3, Q(strFields))

-----------------------------------------------------------------------------
(* parser.ts: the second pass of parseQuery                                *)

\* (query.page - 1) * query.limit
skipOf(page, limit) ==
  With(<<ToNumber(page), ToNumber(limit)>>, LAMBDA n :
    IF IsInteger(n[1]) /\ IsInteger(n[2])
    THEN IntNum((ToInt(n[1]) - 1) * ToInt(n[2])) ELSE NaN)

\* The pagination properties of prismaQuery.
paginationOf(page, limit) ==
  IF Truthy(page) /\ Truthy(limit)
  THEN <<Prop(strSkip, skipOf(page, limit)), Prop(strTake, limit)>>
  ELSE IF Truthy(limit) THEN <<Prop(strTake, limit)>>
  ELSE << >>

SelectWrapper == Obj(<<Prop(strSelect, Obj(<< >>))>>)

\* The walk of one dotted field: parts[i] for i < parts.length - 1 moves
\* current (the object at loc) into the select of a wrapper, creating or
\* replacing the wrapper when needed; the last part is set to true.
RECURSIVE selectWalk(_, _, _)
selectWalk(S, loc, parts) ==
  IF Deref(S, loc).t \in {"null", "undefined"} THEN [S |-> S, threw |-> TRUE]
  ELSE IF Len(parts) = 1 THEN Assign(S, loc, parts[1], Bool(TRUE))
  ELSE With(Lookup(S, loc, parts[1]), LAMBDA at :
         With(IF at.found THEN Deref(S, at.loc) ELSE Undefined, LAMBDA held :
           With(IF IsObj(held) THEN Lookup(S, at.loc, strSelect)
                ELSE [found |-> FALSE, loc |-> NullLoc],
                LAMBDA hasSelect :
                  IF Truthy(held) /\ TypeOf(held) = "object" /\ hasSelect.found
                  THEN selectWalk(S, hasSelect.loc, Tail(parts))
                  ELSE With(Assign(S, loc, parts[1], SelectWrapper), LAMBDA made :
                         IF made.threw THEN made
                         ELSE selectWalk(made.S,
                                         Lookup(made.S, Lookup(made.S, loc, parts[1]).loc,
                                                strSelect).loc,
                                         Tail(parts))))))

\* The loop over query.fields building prismaQuery.select (the own root).
RECURSIVE selectLoop(_, _)
selectLoop(S, fieldList) ==
  IF Len(fieldList) = 0 THEN [S |-> S, threw |-> FALSE]
  ELSE With(IF Includes(fieldList[1], ".")
            THEN selectWalk(S, OwnRoot, Split(fieldList[1], "."))
            ELSE Assign(S, OwnRoot, fieldList[1], Bool(TRUE)),
            LAMBDA step :
              IF step.threw THEN step ELSE selectLoop(step.S, Tail(fieldList)))

\* What for (const field of query.fields) visits: the elements of an array,
\* the characters of a string.
FieldList(fieldsValue) ==
  IF fieldsValue.t = "array" THEN [i \in 1..Len(fieldsValue.v) |-> fieldsValue.v[i].v]
  ELSE [i \in 1..Len(fieldsValue.v) |-> <<fieldsValue.v[i]>>]

\* query.fields && query.fields.length > 0
HasFields(fieldsValue) ==
  fieldsValue.t \in {"array", "string"} /\ Len(fieldsValue.v) > 0

\* directionOf with desc as the fallback direction.
directionOfDescending(dir) ==
  IF dir.t = "string" /\ Len(dir.v) > 0 /\ ToLowerCase(dir.v) \in {strAsc, strDesc}
  THEN ToLowerCase(dir.v) ELSE strDesc

\* The direction of a sort term whose part after the colon is dir.
directionOf(dir) ==
  IF dir.t = "string" /\ Len(dir.v) > 0 /\ ToLowerCase(dir.v) \in {strAsc, strDesc}
  THEN ToLowerCase(dir.v) ELSE strAsc

\* The loop over the terms of query.sort: orderBy gains one single-key
\* object per term; a term without a field name stops the call.
RECURSIVE sortLoop(_, _)
sortLoop(sortParts, orderBy) ==
  IF Len(sortParts) = 0 THEN [orderBy |-> orderBy, failed |-> FALSE]
  ELSE With(Split(sortParts[1], ":"), LAMBDA pieces :
         IF Len(pieces[1]) = 0 THEN [orderBy |-> orderBy, failed |-> TRUE]
         ELSE sortLoop(
                Tail(sortParts),
                Append(orderBy,
                       Obj(<<Prop(pieces[1],
                                  Str(directionOf(IF Len(pieces) >= 2 THEN Str(pieces[2])
                                                  ELSE Undefined)))>>))))

-----------------------------------------------------------------------------
(* parser.ts: parseQuery                                                   *)

\* String(raw.fields).split(",").map(trim).filter(nonempty)
fieldsOf(rawFields) ==
  With(Split(ToStr(rawFields), ","), LAMBDA parts :
    With(SelectSeq([i \in 1..Len(parts) |-> Trim(parts[i])], LAMBDA f : f # << >>),
         LAMBDA kept : Arr([i \in 1..Len(kept) |-> Str(kept[i])])))

\* The early return without the assignment result.success = false.
FailureUnmarked(errors) == [data |-> Obj(<< >>), success |-> TRUE, errors |-> errors]

Failure(errors) == [data |-> Obj(<< >>), success |-> FALSE, errors |-> errors]

\* The catch block: the errors recorded so far gain the key general.
Caught(errors) == Failure(PutError(errors, strGeneral, "TypeError"))

\* The first pass up to the loop over the keys: the query options taken
\* from page, limit, sort and fields, and the errors of page and limit.
extractOptions(rawArg, P) ==
  With([page |-> RawGet(rawArg, strPage, P), limit |-> RawGet(rawArg, strLimit, P),
        sort |-> RawGet(rawArg, strSort, P), fields |-> RawGet(rawArg, strFields, P)],
       LAMBDA r :
         With([page |-> parseInt(r.page), limit |-> parseInt(r.limit)], LAMBDA num :
           [options |->
              (IF r.page # Undefined /\ ~IsNaN(num.page)
               THEN <<Prop(strPage, num.page)>> ELSE << >>)
              \o (IF r.limit # Undefined /\ ~IsNaN(num.limit)
                  THEN <<Prop(strLimit, num.limit)>> ELSE << >>)
              \o (IF r.sort # Undefined
                  THEN <<Prop(strSort, Str(ToStr(r.sort)))>> ELSE << >>)
              \o (IF r.fields # Undefined
                  THEN <<Prop(strFields, fieldsOf(r.fields))>> ELSE << >>),
            errors |->
              (IF r.page # Undefined /\ IsNaN(num.page)
               THEN <<Prop(strPage, "Page must be a valid number")>> ELSE << >>)
              \o (IF r.limit # Undefined /\ IsNaN(num.limit)
                  THEN <<Prop(strLimit, "Limit must be a valid number")>> ELSE << >>)]))

\* The second pass: prismaQuery from the validated query.  The fields of
\* query are read with ordinary property access.
projectQuery(query, filters, P) ==
  With([page |-> Read([own |-> query, P |-> P], OwnRoot, strPage),
        limit |-> Read([own |-> query, P |-> P], OwnRoot, strLimit),
        sort |-> Read([own |-> query, P |-> P], OwnRoot, strSort),
        fields |-> Read([own |-> query, P |-> P], OwnRoot, strFields)],
       LAMBDA q :
         With(IF HasFields(q.fields)
              THEN selectLoop([own |-> Obj(<< >>), P |-> P], FieldList(q.fields))
              ELSE [S |-> [own |-> Obj(<< >>), P |-> P], threw |-> FALSE],
              LAMBDA sel :
                IF sel.threw \/ (Truthy(q.sort) /\ q.sort.t # "string")
                THEN [result |-> Caught(<< >>), P |-> sel.S.P]
                ELSE With(IF Truthy(q.sort) THEN sortLoop(Split(q.sort.v, ","), << >>)
                          ELSE [orderBy |-> << >>, failed |-> FALSE],
                          LAMBDA sorted :
                            IF sorted.failed
                            THEN [result |->
                                    Failure(<<Prop(strSort,
                                                   "Invalid sort format. Field name is required")>>),
                                  P |-> sel.S.P]
                            ELSE [result |->
                                    [data |->
                                       Obj(paginationOf(q.page, q.limit)
                                           \o (IF HasFields(q.fields)
                                               THEN <<Prop(strSelect, sel.S.own)>> ELSE << >>)
                                           \o (IF Truthy(q.sort)
                                               THEN <<Prop(strOrderBy, Arr(sorted.orderBy))>>
                                               ELSE << >>)
                                           \o (IF Len(filters.v) > 0
                                               THEN <<Prop(strWhere, filters)>> ELSE << >>)),
                                     success |-> TRUE,
                                     errors |-> << >>],
                                  P |-> sel.S.P])))

\* parseQuery(raw) called while Object.prototype is P: the returned result
\* and Object.prototype as the call leaves it.
parseQuery(rawArg, P) ==
  IF RawThrows(rawArg) THEN [result |-> Caught(<< >>), P |-> P]
  ELSE With(extractOptions(rawArg, P), LAMBDA ex :
         With(filtersLoop(rawArg, ForInKeys(rawArg, P), [own |-> Obj(<< >>), P |-> P]),
              LAMBDA loop :
                IF loop.threw THEN [result |-> Caught(ex.errors), P |-> loop.S.P]
                ELSE With(Obj(ex.options \o <<Prop(strFilters, loop.S.own)>>), LAMBDA query :
                       With(validateQuery(ex.errors, query, loop.S.P), LAMBDA errors :
                         IF Len(errors) > 0
                         THEN [result |-> Failure(errors), P |-> loop.S.P]
                         ELSE projectQuery(query, loop.S.own, loop.S.P)))))

-----------------------------------------------------------------------------
(* parser.ts: what the call does to its argument                           *)
(*                                                                         *)
(* convertValueType returns a value that is not a string as it is, so an   *)
(* object given as a filter value is stored in the working filters object  *)
(* by reference: what a later path writes into it is written into the      *)
(* object the caller holds.  A held object is followed by its location in  *)
(* the store for as long as it is stored there.                            *)

\* The loop of setNestedValue from the object at loc: the store after it
\* and the location of the object that receives lastKey.
RECURSIVE setNestedTarget(_, _, _)
setNestedTarget(S, loc, keys) ==
  IF ~IsObj(Deref(S, loc)) THEN [S |-> S, loc |-> loc, threw |-> TRUE]
  ELSE IF Len(keys) = 0 THEN [S |-> S, loc |-> loc, threw |-> FALSE]
  ELSE With(Lookup(S, loc, keys[1]), LAMBDA at :
         IF ~at.found \/ TypeOf(Deref(S, at.loc)) # "object"
         THEN With(Assign(S, loc, keys[1], Obj(<< >>)), LAMBDA a :
                IF a.threw THEN [S |-> S, loc |-> loc, threw |-> TRUE]
                ELSE setNestedTarget(a.S, ExtendLoc(loc, keys[1]), Tail(keys)))
         ELSE setNestedTarget(S, at.loc, Tail(keys)))

\* The held objects after an assignment to the location target of the
\* store S: an object stored at or below target is no longer in the store
\* and keeps the content it has.
releaseHeld(S, held, target) ==
  [i \in 1..Len(held) |->
     IF held[i].stored /\ held[i].loc.root = target.root
        /\ StartsWith(held[i].loc.path, target.path)
     THEN [key |-> held[i].key, stored |-> FALSE, loc |-> NullLoc,
           content |-> Deref(S, held[i].loc)]
     ELSE held[i]]

\* The raw map with every held object as the call leaves it.
rawWithHeld(rawArg, S, held) ==
  Obj([n \in 1..Len(rawArg.v) |->
         IF \E i \in 1..Len(held) : held[i].key = rawArg.v[n].k
         THEN With(held[CHOOSE i \in 1..Len(held) : held[i].key = rawArg.v[n].k], LAMBDA h :
                Prop(h.key, IF h.stored THEN Deref(S, h.loc) ELSE h.content))
         ELSE rawArg.v[n]])

\* The loop over the keys of raw, as filtersLoop, following the objects of
\* raw that it stores: the raw map when the loop ends or throws.
RECURSIVE rawAfterLoop(_, _, _, _)
rawAfterLoop(rawArg, keys, S, held) ==
  IF Len(keys) = 0 THEN rawWithHeld(rawArg, S, held)
  ELSE IF ~IsFilterKey(keys[1]) THEN rawAfterLoop(rawArg, Tail(keys), S, held)
  ELSE With(Split(FilterPath(keys[1]), "."), LAMBDA segs :
    With(convertValueType(RawGet(rawArg, keys[1], S.P)), LAMBDA value :
      With(setNestedTarget(S, OwnRoot, Take(segs, Len(segs) - 1)), LAMBDA walk :
        IF walk.threw THEN rawWithHeld(rawArg, walk.S, held)
        ELSE With(Assign(walk.S, walk.loc, segs[Len(segs)], value), LAMBDA a :
          IF a.threw THEN rawWithHeld(rawArg, walk.S, held)
          ELSE IF segs[Len(segs)] = strProto /\ ~IsObj(value)
          THEN rawAfterLoop(rawArg, Tail(keys), a.S, held)
          ELSE With(ExtendLoc(walk.loc, segs[Len(segs)]), LAMBDA target :
            rawAfterLoop(rawArg, Tail(keys), a.S,
                         releaseHeld(walk.S, held, target)
                         \o (IF IsObj(value) /\ HasOwn(rawArg, keys[1])
                             THEN <<[key |-> keys[1], stored |-> TRUE, loc |-> target,
                                     content |-> value]>>
                             ELSE << >>)))))))

\* The raw map after parseQuery(raw) called while Object.prototype is P.
rawAfterParse(rawArg, P) ==
  IF ~IsObj(rawArg) THEN rawArg
  ELSE rawAfterLoop(rawArg, ForInKeys(rawArg, P), [own |-> Obj(<< >>), P |-> P], << >>)

-----------------------------------------------------------------------------
(* serializer.ts: flattenObject                                            *)

strQuestionMark == <<"s", "t", "a", "r", "t", "W", "i", "t", "h", "Q", "u", "e", "s", "t", "i", "o", "n", "M", "a", "r", "k">>

strPrettyPrint == <<"p", "r", "e", "t", "t", "y", "P", "r", "i", "n", "t">>

\* typeof value === 'object' && value !== null && !Array.isArray(value)
IsPlainObject(value) == value.t = "object"

\* acc[k] = value on the accumulator: an ordinary assignment, so the key
\* __proto__ runs the prototype setter instead of creating a property.
AccSet(acc, k, value) ==
  IF k = strProto
  THEN (IF value.t \in {"object", "array"}
        THEN [t |-> "object", v |-> acc.v, proto |-> value] ELSE acc)
  ELSE PutOwn(acc, k, value)

\* Object.assign(acc, source)
RECURSIVE AccAssign(_, _)
AccAssign(acc, entries) ==
  IF Len(entries) = 0 THEN acc
  ELSE AccAssign(AccSet(acc, entries[1].k, entries[1].v), Tail(entries))

\* flattenObject(obj, prefix): the reduce over Object.keys(obj), entries
\* being the properties not yet visited.
RECURSIVE flattenReduce(_, _, _)
flattenReduce(entries, prefix, acc) ==
  IF Len(entries) = 0 THEN acc
  ELSE LET key == entries[1].k
           prefixedKey == IF Len(prefix) > 0 THEN prefix \o <<".">> \o key ELSE key
       IN flattenReduce(
            Tail(entries), prefix,
            IF IsPlainObject(entries[1].v)
            THEN AccAssign(acc, flattenReduce(entries[1].v.v, prefixedKey, Obj(<< >>)).v)
            ELSE AccSet(acc, prefixedKey, entries[1].v))

flattenObject(obj) == flattenReduce(obj.v, << >>, Obj(<< >>))

-----------------------------------------------------------------------------
(* URLSearchParams                                                         *)

\* The characters the urlencoded serializer escapes, with their hex codes.
PercentCodes ==
  <<<<" ", <<"2", "0">>>>,
   <<"\n", <<"0", "A">>>>,
   <<"\t", <<"0", "9">>>>,
   <<"\r", <<"0", "D">>>>,
   <<"!", <<"2", "1">>>>,
   <<"#", <<"2", "3">>>>,
   <<"$", <<"2", "4">>>>,
   <<"%", <<"2", "5">>>>,
   <<"&", <<"2", "6">>>>,
   <<"'", <<"2", "7">>>>,
   <<"(", <<"2", "8">>>>,
   <<")", <<"2", "9">>>>,
   <<"+", <<"2", "B">>>>,
   <<",", <<"2", "C">>>>,
   <<"/", <<"2", "F">>>>,
   <<":", <<"3", "A">>>>,
   <<";", <<"3", "B">>>>,
   <<"<", <<"3", "C">>>>,
   <<"=", <<"3", "D">>>>,
   <<">", <<"3", "E">>>>,
   <<"?", <<"3", "F">>>>,
   <<"@", <<"4", "0">>>>,
   <<"[", <<"5", "B">>>>,
   <<"]", <<"5", "D">>>>,
   <<"^", <<"5", "E">>>>,
   <<"{", <<"7", "B">>>>,
   <<"|", <<"7", "C">>>>,
   <<"}", <<"7", "D">>>>,
   <<"~", <<"7", "E">>>>>>

PercentEncoded == {PercentCodes[i][1] : i \in 1..Len(PercentCodes)}

CodeOf(c) == PercentCodes[CHOOSE i \in 1..Len(PercentCodes) : PercentCodes[i][1] = c][2]

HasCode(h) == \E i \in 1..Len(PercentCodes) : PercentCodes[i][2] = h

CharOf(h) == PercentCodes[CHOOSE i \in 1..Len(PercentCodes) : PercentCodes[i][2] = h][1]

\* The urlencoded byte serializer: a space becomes +, letters, digits and
\* * - . _ stay, every other character becomes %XX.
RECURSIVE UrlEncode(_)
UrlEncode(s) ==
  IF Len(s) = 0 THEN << >>
  ELSE (IF s[1] = " " THEN <<"+">>
        ELSE IF s[1] \in PercentEncoded THEN <<"%">> \o CodeOf(s[1])
        ELSE <<s[1]>>) \o UrlEncode(Tail(s))

UpperHex(c) ==
  CASE c = "a" -> "A" [] c = "b" -> "B" [] c = "c" -> "C"
    [] c = "d" -> "D" [] c = "e" -> "E" [] c = "f" -> "F" [] OTHER -> c

\* The urlencoded parser on one name or value: + becomes a space, %XX the
\* character it encodes; a % not followed by a known code stays.
RECURSIVE UrlDecode(_)
UrlDecode(s) ==
  IF Len(s) = 0 THEN << >>
  ELSE IF s[1] = "+" THEN <<" ">> \o UrlDecode(Tail(s))
  ELSE IF s[1] = "%" /\ Len(s) >= 3 /\ HasCode(<<UpperHex(s[2]), UpperHex(s[3])>>)
       THEN <<CharOf(<<UpperHex(s[2]), UpperHex(s[3])>>)>> \o UrlDecode(Drop(s, 3))
  ELSE <<s[1]>> \o UrlDecode(Tail(s))

\* params.set(name, value): the first pair of that name gets the value and
\* the others are removed; a new name is appended.
ParamsSet(params, name, value) ==
  IF \E i \in 1..Len(params) : params[i].k = name
  THEN LET first == CHOOSE i \in 1..Len(params) :
                      params[i].k = name /\ \A j \in 1..(i - 1) : params[j].k # name
           marked == [i \in 1..Len(params) |->
                        IF i = first THEN Prop(name, value) ELSE params[i]]
       IN SelectSeq(marked, LAMBDA pr : pr.k # name \/ pr = Prop(name, value))
  ELSE Append(params, Prop(name, value))

\* params.toString()
ParamsToString(params) ==
  Join([i \in 1..Len(params) |-> UrlEncode(params[i].k) \o <<"=">> \o UrlEncode(params[i].v)],
       <<"&">>)

\* new URLSearchParams(text): the pairs of a query string, in order.
ParamsParse(text) ==
  LET body == IF Len(text) > 0 /\ text[1] = "?" THEN Tail(text) ELSE text
      pieces == SelectSeq(Split(body, "&"), LAMBDA piece : Len(piece) > 0)
      PairOf(piece) ==
        LET eq == IndexOf(piece, "=")
        IN IF eq = 0 THEN Prop(UrlDecode(piece), << >>)
           ELSE Prop(UrlDecode(Take(piece, eq - 1)), UrlDecode(Drop(piece, eq)))
  IN [i \in 1..Len(pieces) |-> PairOf(pieces[i])]

-----------------------------------------------------------------------------
(* serializer.ts: serializeSchema and serializeQuery                       *)

\* yup.number().integer().min(1).nullable() on one field of options.
YupNullableNumberOk(value) ==
  \/ value.t \in {"undefined", "null"}
  \/ With(YupNumberCast(value), LAMBDA n : n.t = "number" /\ IsInteger(n) /\ n.v.m >= 1)

\* yup.string().nullable()
YupNullableStringOk(value) ==
  value.t \in {"undefined", "null"} \/ YupStringCast(value).t = "string"

\* yup.array().of(yup.string()).nullable(): the elements are cast as well,
\* an element that is null or not castable to a string fails.
YupNullableStringArrayOk(value) ==
  \/ value.t \in {"undefined", "null"}
  \/ With(YupArrayCast(value), LAMBDA c :
       /\ c.t = "array"
       /\ \A i \in 1..Len(c.v) :
            c.v[i].t = "undefined" \/ YupStringCast(c.v[i]).t = "string")

\* yup.object().nullable()
YupNullableObjectOk(value) == value.t \in {"undefined", "null", "object"}

\* serializeSchema.validateSync(options, { abortEarly: false }) passes.
serializeSchemaOk(options, P) ==
  LET O(k) == Read([own |-> options, P |-> P], OwnRoot, k)
  IN /\ IsObj(options)
     /\ YupNullableNumberOk(O(strPage))
     /\ YupNullableNumberOk(O(strLimit))
     /\ YupNullableStringOk(O(strSort))
     /\ YupNullableStringArrayOk(O(strFields))
     /\ YupNullableObjectOk(O(strFilters))

\* The loop over Object.entries(flattenedFilters).
RECURSIVE filterParams(_, _)
filterParams(params, entries) ==
  IF Len(entries) = 0 THEN params
  ELSE filterParams(
         IF entries[1].v.t \in {"undefined", "null"} THEN params
         ELSE ParamsSet(params, strFiltersOpen \o entries[1].k \o <<"]">>, ToStr(entries[1].v)),
         Tail(entries))

\* The concatenation of pieces[lo], ..., pieces[hi].
RECURSIVE ConcatRange(_, _, _)
ConcatRange(pieces, lo, hi) ==
  IF lo > hi THEN << >>
  ELSE IF lo = hi THEN pieces[lo]
  ELSE ConcatRange(pieces, lo, (lo + hi) \div 2)
       \o ConcatRange(pieces, (lo + hi) \div 2 + 1, hi)

\* s.replace(/from/g, to) for a pattern whose first character occurs
\* nowhere else in it, so that every occurrence is a match: each position
\* of s contributes to, nothing, or its own character.
ReplaceAll(s, from, to) ==
  LET StartsAt(i) ==
        i >= 1 /\ i + Len(from) - 1 <= Len(s) /\ SubSeq(s, i, i + Len(from) - 1) = from
  IN With([i \in 1..Len(s) |->
            IF StartsAt(i) THEN to
            ELSE IF \E j \in (i - Len(from) + 1)..(i - 1) : StartsAt(j) THEN << >>
            ELSE <<s[i]>>],
          LAMBDA pieces : ConcatRange(pieces, 1, Len(s)))

prettyPrinted(s) ==
  ReplaceAll(ReplaceAll(ReplaceAll(ReplaceAll(ReplaceAll(s,
    <<"&">>, <<"\n", "&">>),
    <<"%", "5", "B">>, <<"[">>),
    <<"%", "5", "D">>, <<"]">>),
    <<"%", "3", "A">>, <<":">>),
    <<"%", "2", "C">>, <<",">>)

\* The pairs set on params from the options o, in the order of the code.
serializeParams(o) ==
  With(IF o.page # Undefined THEN <<Prop(strPage, ToStr(o.page))>> ELSE << >>, LAMBDA p1 :
    With(IF o.limit # Undefined THEN ParamsSet(p1, strLimit, ToStr(o.limit)) ELSE p1,
         LAMBDA p2 :
           With(IF Truthy(o.sort) THEN ParamsSet(p2, strSort, ToStr(o.sort)) ELSE p2,
                LAMBDA p3 :
                  With(IF Truthy(o.fields) /\ o.fields.t = "array" /\ Len(o.fields.v) > 0
                       THEN ParamsSet(p3, strFields, ToStr(o.fields)) ELSE p3,
                       LAMBDA p4 :
                         IF Truthy(o.filters)
                         THEN filterParams(p4, flattenObject(o.filters).v) ELSE p4))))

DefaultConfig == Obj(<<Prop(strQuestionMark, Bool(TRUE))>>)

\* serializeQuery(options, config) called while Object.prototype is P:
\* threw tells whether the call raised, wrapped whether what it raised is
\* the wrapped validation error, value is the returned string.
serializeQuery(options, config, P) ==
  With([page |-> Read([own |-> options, P |-> P], OwnRoot, strPage),
        limit |-> Read([own |-> options, P |-> P], OwnRoot, strLimit),
        sort |-> Read([own |-> options, P |-> P], OwnRoot, strSort),
        fields |-> Read([own |-> options, P |-> P], OwnRoot, strFields),
        filters |-> Read([own |-> options, P |-> P], OwnRoot, strFilters),
        startWithQuestionMark |->
          With(Read([own |-> config, P |-> P], OwnRoot, strQuestionMark), LAMBDA flag :
            IF flag.t \in {"undefined", "null"} THEN TRUE ELSE Truthy(flag)),
        prettyPrint |-> Truthy(Read([own |-> config, P |-> P], OwnRoot, strPrettyPrint))],
       LAMBDA o :
         IF ~serializeSchemaOk(options, P)
         THEN [threw |-> TRUE, wrapped |-> TRUE, value |-> << >>]
         ELSE IF \/ o.page.t = "null"
                 \/ o.limit.t = "null"
                 \/ Truthy(o.fields) /\ o.fields.t = "string"
         THEN [threw |-> TRUE, wrapped |-> FALSE, value |-> << >>]
         ELSE With(ParamsToString(serializeParams(o)), LAMBDA plain :
                With(IF o.prettyPrint /\ Len(plain) > 0 THEN prettyPrinted(plain) ELSE plain,
                     LAMBDA queryText :
                       [threw |-> FALSE, wrapped |-> FALSE,
                        value |-> (IF o.startWithQuestionMark THEN <<"?">> ELSE << >>)
                                  \o queryText])))

-----------------------------------------------------------------------------
(* The calls that are made                                                 *)
(*                                                                         *)
(* A behaviour is one use of the library: parseQuery on a raw map, then,   *)
(* as in the round-trip test, serializeQuery on the where of the result,   *)
(* the decoding of the query string and parseQuery on the decoded map.     *)
(* Object.prototype is shared by all the calls of a behaviour.             *)

\* The largest number of filters[...] keys in a raw map.
MaxFilterKeys == 2

\* The largest length of an enumerated filter value.
MaxValueLen == 4

PageValues ==
  {Undefined,
   Str(<<"1">>),
   Str(<<"2">>),
   Str(<<"a", "b", "c">>),
   Str(<<"-", "1", "0">>),
   Str(<<"0">>),
   Str(<<"1", "0", "a", "b", "c">>),
   Str(<<"2", ".", "5">>),
   Str(<<" ", "3">>),
   Str(<<"3", " ">>),
   Str(<< >>),
   IntNum(2),
   Null}

LimitValues ==
  {Undefined,
   Str(<<"1">>),
   Str(<<"1", "0">>),
   Str(<<"a", "b", "c">>),
   Str(<<"-", "1", "0">>),
   Str(<<"0">>),
   Str(<<"5", "x">>)}

SortValues ==
  {Undefined,
   Str(<<"n", "a", "m", "e">>),
   Str(<<"n", "a", "m", "e", ":", "a", "s", "c">>),
   Str(<<"n", "a", "m", "e", ":", "a", "s", "c", ",", "c", "r", "e", "a", "t", "e", "d", "A", "t", ":", "d", "e", "s", "c">>),
   Str(<<"a", ",", "b", ":", "d", "e", "s", "c", ",", "a", ":", "a", "s", "c">>),
   Str(<<"a", ":", "d", "e", "s", "c", ",", "b">>),
   Str(<<"n", "a", "m", "e", ":", "D", "E", "S", "C">>),
   Str(<<"n", "a", "m", "e", ":", "i", "n", "v", "a", "l", "i", "d">>),
   Str(<<"a", ":", ":", "b">>),
   Str(<<"a", ",">>),
   Str(<< >>),
   Str(<<"i", "n", "v", "a", "l", "i", "d", ":", "f", "o", "r", "m", "a", "t", ":">>),
   Str(<<":", "a", "s", "c">>),
   Str(<<"_", "_", "p", "r", "o", "t", "o", "_", "_", ":", "a", "s", "c">>),
   Str(<<"a", " ", "b">>)}

FieldsValues ==
  {Undefined,
   Str(<<"i", "d">>),
   Str(<<"i", "d", ",", "n", "a", "m", "e", ",", "e", "m", "a", "i", "l">>),
   Str(<<"i", "d", ",", "p", "r", "o", "f", "i", "l", "e", ".", "b", "i", "o", ",", "p", "r", "o", "f", "i", "l", "e", ".", "a", "v", "a", "t", "a", "r">>),
   Str(<<" ", "i", "d", " ", ",", " ", "n", "a", "m", "e", " ", ",", ",", " ">>),
   Str(<<"p", "r", "o", "f", "i", "l", "e", ".", "b", "i", "o", ",", "p", "r", "o", "f", "i", "l", "e">>),
   Str(<<"p", "r", "o", "f", "i", "l", "e", ",", "p", "r", "o", "f", "i", "l", "e", ".", "b", "i", "o">>),
   Str(<<"i", "d", ",", "u", "s", "e", "r", ".", "p", "r", "o", "f", "i", "l", "e", ".", "c", "i", "t", "y", ",", "u", "s", "e", "r", ".", "p", "r", "o", "f", "i", "l", "e", ".", "z", "i", "p">>),
   Str(<<"a", " ", "b">>),
   Str(<<"i", "d", ",", "a", "-", "b">>),
   Str(<<"a", ".", ".", "b">>),
   Str(<<".", "a">>),
   Str(<<"_", "_", "p", "r", "o", "t", "o", "_", "_">>),
   Str(<<"_", "_", "p", "r", "o", "t", "o", "_", "_", ".", "x">>),
   Str(<<"c", "o", "n", "s", "t", "r", "u", "c", "t", "o", "r", ".", "x">>),
   Str(<<",">>),
   Str(<< >>)}

\* Raw entries other than page, limit, sort and fields.
FilterPool ==
  {Prop(<<"f", "i", "l", "t", "e", "r", "s", "[", "a", "]">>, Str(<<"x">>)),
   Prop(<<"f", "i", "l", "t", "e", "r", "s", "[", "a", ".", "b", "]">>, Str(<<"y">>)),
   Prop(<<"f", "i", "l", "t", "e", "r", "s", "[", "a", ".", "c", "]">>, Str(<<"t", "r", "u", "e">>)),
   Prop(<<"f", "i", "l", "t", "e", "r", "s", "[", "b", "]">>, Str(<<"3", "0">>)),
   Prop(<<"f", "i", "l", "t", "e", "r", "s", "[", "a", ".", "b", ".", "c", "]">>, Str(<<"4", ".", "5">>)),
   Prop(<<"f", "i", "l", "t", "e", "r", "s", "[", ".", "b", "]">>, Str(<<"x">>)),
   Prop(<<"f", "i", "l", "t", "e", "r", "s", "[", "a", ".", "]">>, Str(<<"1">>)),
   Prop(<<"f", "i", "l", "t", "e", "r", "s", "[", "1", "]">>, Str(<<"0", "0", "7">>)),
   Prop(<<"f", "i", "l", "t", "e", "r", "s", "[", "a", "]">>, Null),
   Prop(<<"f", "i", "l", "t", "e", "r", "s", "[", "a", " ", "b", "]">>, Str(<<"N", "e", "w", " ", "Y", "o", "r", "k">>)),
   Prop(<<"f", "i", "l", "t", "e", "r", "s", "[", "a", "&", "b", "]">>, Str(<<"c", "=", "d">>)),
   Prop(<<"f", "i", "l", "t", "e", "r", "s", "[", "a", "]", "]">>, Str(<<"z">>)),
   Prop(<<"f", "i", "l", "t", "e", "r", "s", "[", "a", "\n", "b", "]">>, Str(<<"x">>)),
   Prop(<<"f", "i", "l", "t", "e", "r", "s", "[", "]">>, Str(<<"x">>)),
   Prop(<<"o", "t", "h", "e", "r">>, Str(<<"x">>)),
   Prop(<<"f", "i", "l", "t", "e", "r", "s", "[", "_", "_", "p", "r", "o", "t", "o", "_", "_", "]">>, Str(<<"x">>)),
   Prop(<<"f", "i", "l", "t", "e", "r", "s", "[", "_", "_", "p", "r", "o", "t", "o", "_", "_", ".", "l", "i", "m", "i", "t", "]">>, Str(<<"5">>)),
   Prop(<<"f", "i", "l", "t", "e", "r", "s", "[", "_", "_", "p", "r", "o", "t", "o", "_", "_", ".", "f", "i", "l", "t", "e", "r", "s", "[", "z", "]", "]">>, Str(<<"q">>))}

ValueChars == {"0", "1", "5", ".", "-", "e", " "}

\* Every string over ValueChars of length at most n.
RECURSIVE StringsUpTo(_)
StringsUpTo(n) ==
  IF n = 0 THEN {<< >>}
  ELSE LET shorter == StringsUpTo(n - 1)
       IN shorter \cup {Append(w, c) : w \in shorter, c \in ValueChars}

\* Filter values: the enumerated strings, strings of the tests and of the
\* documentation, and values that are not strings.
FilterValues ==
  {Str(w) : w \in StringsUpTo(MaxValueLen)} \cup
  {Str(<<"t", "r", "u", "e">>),
   Str(<<"f", "a", "l", "s", "e">>),
   Str(<<"I", "n", "f", "i", "n", "i", "t", "y">>),
   Str(<<"-", "I", "n", "f", "i", "n", "i", "t", "y">>),
   Str(<<"N", "a", "N">>),
   Str(<<"0", "0", "7">>),
   Str(<<"1", ".", "0">>),
   Str(<<" ", "3", "0">>),
   Str(<<"4", ".", "5">>),
   Str(<<"3", "0">>),
   Str(<<"1", "e", "2", "1">>),
   Str(<<"1", "e", "-", "7">>),
   Str(<<"0", "x", "1", "0">>),
   Str(<<"J", "o", "h", "n">>),
   Str(<<"T", "r", "u", "e">>),
   Str(<<"+", "5">>),
   Str(<<"1", "0", "0", "0", "1">>),
   Str(<<"0", ".", "5", "e", "1">>),
   Null,
   Bool(TRUE),
   IntNum(7),
   Obj(<<Prop(<<"x">>, IntNum(1))>>)}

\* The properties of a raw map for the given page, limit, sort and fields.
OptionEntries(page, limit, sort, fields) ==
  (IF page = Undefined THEN << >> ELSE <<Prop(strPage, page)>>)
  \o (IF limit = Undefined THEN << >> ELSE <<Prop(strLimit, limit)>>)
  \o (IF sort = Undefined THEN << >> ELSE <<Prop(strSort, sort)>>)
  \o (IF fields = Undefined THEN << >> ELSE <<Prop(strFields, fields)>>)

\* The sequences of at most n pool entries with pairwise different keys.
RECURSIVE EntrySeqs(_)
EntrySeqs(n) ==
  IF n = 0 THEN {<< >>}
  ELSE LET shorter == EntrySeqs(n - 1)
       IN shorter \cup
          {Append(es, e) : es \in {x \in shorter : Len(x) = n - 1},
                           e \in FilterPool} 

DistinctKeys(es) == \A i, j \in 1..Len(es) : i # j => es[i].k # es[j].k

\* A raw map as the caller builds it, one assignment per entry.
RawObject(entries) == AccAssign(Obj(<< >>), entries)

PollutingEntry == Prop(strFiltersOpen \o strProto \o <<".">> \o strLimit \o <<"]">>, Str(<<"5">>))

\* Raw maps that give an object as a filter value, alone and with a path
\* that runs through it.
ObjectValuedInputs ==
  {RawObject(es) : es \in
     {<<Prop(strFiltersOpen \o <<"a", "]">>, Obj(<<Prop(<<"x">>, IntNum(1))>>)),
        Prop(strFiltersOpen \o <<"a", ".", "b", "]">>, Str(<<"y">>))>>,
      <<Prop(strFiltersOpen \o <<"a", ".", "b", "]">>, Str(<<"y">>)),
        Prop(strFiltersOpen \o <<"a", "]">>, Obj(<<Prop(<<"x">>, IntNum(1))>>))>>,
      <<Prop(strFiltersOpen \o <<"a", "]">>, Obj(<<Prop(<<"x">>, IntNum(1))>>)),
        Prop(strFiltersOpen \o <<"b", "]">>, Str(<<"3", "0">>))>>,
      <<Prop(strFiltersOpen \o <<"a", ".", "b", "]">>, Obj(<<Prop(<<"x">>, IntNum(1))>>)),
        Prop(strFiltersOpen \o <<"a", ".", "b", ".", "c", "]">>, Str(<<"4", ".", "5">>)),
        Prop(strFiltersOpen \o <<"a", "]">>, Str(<<"x">>))>>,
      <<Prop(strFiltersOpen \o <<"a", "]">>, Obj(<<Prop(<<"x">>, Obj(<<Prop(<<"z">>, Bool(TRUE))>>))>>)),
        Prop(strFiltersOpen \o <<"a", ".", "x", ".", "z", "]">>, Str(<<"f", "a", "l", "s", "e">>))>>}}

RawInputs ==
  {RawObject(OptionEntries(pg, lm, Undefined, Undefined) \o extra) :
     pg \in PageValues, lm \in LimitValues, extra \in {<< >>, <<PollutingEntry>>}}
  \cup {RawObject(OptionEntries(pg, Undefined, st, Undefined)) :
          pg \in {Undefined, Str(<<"2">>), Str(<<"a">>)}, st \in SortValues}
  \cup {RawObject(OptionEntries(Undefined, lm, Undefined, fl)) :
          lm \in {Undefined, Str(<<"0">>)}, fl \in FieldsValues}
  \cup {RawObject(OptionEntries(pg, lm, st, fl)) :
          pg \in {Undefined, Str(<<"2">>), Str(<<"a", "b", "c">>)},
          lm \in {Undefined, Str(<<"-", "1", "0">>)},
          st \in {Undefined, Str(<<"a">>), Str(<<"a", ":", ":", "b">>)},
          fl \in {Undefined, Str(<<"i", "d">>), Str(<<"i", "d", ",", "a", " ", "b">>)}}
  \cup {RawObject(es) : es \in {x \in EntrySeqs(MaxFilterKeys) : DistinctKeys(x)}}
  \cup {RawObject(<<Prop(strFiltersOpen \o path \o <<"]">>, value)>>) :
          path \in {<<"a">>, <<"a", ".", "b">>}, value \in FilterValues}
  \cup ObjectValuedInputs
  \cup {Null, Undefined, Str(<<"a", "b", "c">>), IntNum(5)}

NotCalled == [called |-> FALSE]

\* No direct call of serializeQuery is made in this behaviour.
SerializerIdle ==
  /\ givenOptions = NotCalled
  /\ givenConfig = NotCalled
  /\ serialized = NotCalled

\* No call of mergeQueries is made in this behaviour.
MergeIdle ==
  /\ heap = << >>
  /\ defaultQuery = 0
  /\ parsedQuery = 0
  /\ mergeOptions = NotCalled
  /\ merged = NotCalled
  /\ mergeInputs = NotCalled
  /\ mutation = NotCalled
  /\ laterQuery = NotCalled
  /\ mergedAgain = NotCalled

Init ==
  /\ phase = "start"
  /\ raw \in RawInputs
  /\ result = NotCalled
  /\ objectPrototype = PristinePrototype
  /\ queryString = NotCalled
  /\ reconstructedParams = NotCalled
  /\ secondParseResult = NotCalled
  /\ rawAfterCall = NotCalled
  /\ SerializerIdle
  /\ MergeIdle

\* const parseResult = parseQuery(queryParams)
Parse ==
  /\ phase = "start"
  /\ \E call \in {parseQuery(raw, objectPrototype)} :
       /\ result' = call.result
       /\ objectPrototype' = call.P
  /\ rawAfterCall' = rawAfterParse(raw, objectPrototype)
  /\ phase' = "parsed"
  /\ UNCHANGED <<raw, queryString, reconstructedParams, secondParseResult>>
  /\ UNCHANGED <<serializerVars, mergeVars>>

\* The options of the round trip: { filters: parseResult.data.where }.
roundTripOptions ==
  Obj(<<Prop(strFilters,
             Read([own |-> result.data, P |-> objectPrototype], OwnRoot, strWhere))>>)

\* const queryString = serializeQuery(queryOptions)
Serialize ==
  /\ phase = "parsed"
  /\ result.success
  /\ queryString' = serializeQuery(roundTripOptions, DefaultConfig, objectPrototype)
  /\ phase' = "serialized"
  /\ UNCHANGED <<raw, result, objectPrototype, reconstructedParams, secondParseResult,
                 rawAfterCall>>
  /\ UNCHANGED <<serializerVars, mergeVars>>

\* The loop reconstructedParams[key] = value over urlParams.entries().
Decode ==
  /\ phase = "serialized"
  /\ ~queryString.threw
  /\ \E pairs \in {ParamsParse(queryString.value)} :
       reconstructedParams' =
         AccAssign(Obj(<< >>), [i \in 1..Len(pairs) |-> Prop(pairs[i].k, Str(pairs[i].v))])
  /\ phase' = "decoded"
  /\ UNCHANGED <<raw, result, objectPrototype, queryString, secondParseResult,
                 rawAfterCall>>
  /\ UNCHANGED <<serializerVars, mergeVars>>

\* const secondParseResult = parseQuery(reconstructedParams)
Reparse ==
  /\ phase = "decoded"
  /\ \E call \in {parseQuery(reconstructedParams, objectPrototype)} :
       /\ secondParseResult' = call.result
       /\ objectPrototype' = call.P
  /\ phase' = "reparsed"
  /\ UNCHANGED <<raw, result, queryString, reconstructedParams, rawAfterCall>>
  /\ UNCHANGED <<serializerVars, mergeVars>>

Next == Parse \/ Serialize \/ Decode \/ Reparse

Spec == Init /\ [][Next]_vars

-----------------------------------------------------------------------------
(* Notions used to state the properties                                    *)

\* Deep equality of two values: same own keys at every depth, same value
\* and type at every leaf, whatever the order of the keys.
RECURSIVE DeepEqual(_, _)
DeepEqual(a, b) ==
  IF IsObj(a) /\ IsObj(b)
  THEN /\ OwnKeySet(a) = OwnKeySet(b)
       /\ \A k \in OwnKeySet(a) : DeepEqual(OwnGet(a, k), OwnGet(b, k))
  ELSE IF a.t = "array" /\ b.t = "array"
  THEN /\ Len(a.v) = Len(b.v)
       /\ \A i \in 1..Len(a.v) : DeepEqual(a.v[i], b.v[i])
  ELSE a = b

\* The value reached from tree through own properties only, undefined
\* when a segment is missing.
RECURSIVE OwnPathGet(_, _)
OwnPathGet(tree, segs) ==
  IF Len(segs) = 0 THEN tree
  ELSE IF ~HasOwn(tree, segs[1]) THEN Undefined
  ELSE OwnPathGet(OwnGet(tree, segs[1]), Tail(segs))

\* The paths of the leaves of a tree: the values that are not plain objects.
RECURSIVE LeafPaths(_)
LeafPaths(tree) ==
  UNION {IF IsObj(tree.v[i].v)
         THEN {<<tree.v[i].k>> \o rest : rest \in LeafPaths(tree.v[i].v)}
         ELSE {<<tree.v[i].k>>} : i \in 1..Len(tree.v)}

IsPrefix(p, q) == Len(p) <= Len(q) /\ Take(q, Len(p)) = p

\* A key of the form filters[<path>] with a non-empty path.
LooksLikeFilterKey(key) ==
  /\ Len(key) >= Len(strFiltersOpen) + 2
  /\ StartsWith(key, strFiltersOpen)
  /\ key[Len(key)] = "]"

RawFilterKeys ==
  IF IsObj(raw) THEN {k \in OwnKeySet(raw) : LooksLikeFilterKey(k)} ELSE {}

SegmentsOf(key) == Split(SubSeq(key, Len(strFiltersOpen) + 1, Len(key) - 1), ".")

\* No filter path of raw is a proper dot-prefix of another.
NonConflicting ==
  \A k1, k2 \in RawFilterKeys :
    k1 # k2 => ~IsPrefix(SegmentsOf(k1), SegmentsOf(k2))

\* raw holds only filters[<path>] keys with string values.
FiltersOnly ==
  /\ IsObj(raw)
  /\ Len(raw.v) > 0
  /\ \A i \in 1..Len(raw.v) : LooksLikeFilterKey(raw.v[i].k) /\ raw.v[i].v.t = "string"

WhereOf(res) == OwnGet(res.data, strWhere)

Called == phase # "start"

-----------------------------------------------------------------------------
(* C1: round trip of filters                                               *)

\* C1: for a raw map holding only filters[<path>] keys with string values
\* whose parse succeeds, serializing { filters: where }, decoding the query
\* string and parsing again succeeds and gives a where tree deep-equal to
\* the first one.
C1_RoundTrip ==
  (FiltersOnly /\ phase \in {"serialized", "decoded", "reparsed"}) =>
    /\ ~queryString.threw
    /\ phase = "reparsed" =>
         /\ secondParseResult.success
         /\ DeepEqual(WhereOf(secondParseResult), WhereOf(result))

-----------------------------------------------------------------------------
(* C2: pagination derivation                                               *)

PageSupplied == HasOwn(raw, strPage)

LimitSupplied == HasOwn(raw, strLimit)

HasData(k) == HasOwn(result.data, k)

\* C2: in a successful parse, page p and limit l both supplied give
\* skip = (p - 1) * l and take = l; limit alone gives take = l and no skip;
\* page alone gives neither skip nor take.
C2_Pagination ==
  (Called /\ IsObj(raw) /\ result.success) =>
    LET p == parseInt(OwnGet(raw, strPage))
        l == parseInt(OwnGet(raw, strLimit))
    IN /\ (PageSupplied /\ LimitSupplied) =>
            /\ OwnGet(result.data, strSkip) = IntNum((ToInt(p) - 1) * ToInt(l))
            /\ OwnGet(result.data, strTake) = l
       /\ (~PageSupplied /\ LimitSupplied) =>
            /\ OwnGet(result.data, strTake) = l
            /\ ~HasData(strSkip)
       /\ (PageSupplied /\ ~LimitSupplied) =>
            /\ ~HasData(strSkip)
            /\ ~HasData(strTake)

-----------------------------------------------------------------------------
(* C3: filter value coercion                                               *)

CanonicalInt(s) == IsDigits(s) /\ (Len(s) = 1 \/ s[1] # "0")

CanonicalFraction(f) == IsDigits(f) /\ f[Len(f)] # "0"

RECURSIVE LeadingZeros(_)
LeadingZeros(f) ==
  IF Len(f) > 0 /\ f[1] = "0" THEN 1 + LeadingZeros(Tail(f)) ELSE 0

\* The texts a number prints to without an exponent: an integer part
\* without padding, a fraction without trailing zeros, a magnitude below
\* 10^21 and, when not zero, at least 10^-6.
PlainNumberText(u) ==
  LET dot == IndexOf(u, ".")
      int == IF dot = 0 THEN u ELSE Take(u, dot - 1)
      frac == Drop(u, dot)
  IN /\ CanonicalInt(int)
     /\ Len(int) <= Len(MaxDoubleLead) + Len(MaxDoubleLead) + 3
     /\ dot # 0 => /\ CanonicalFraction(frac)
                   /\ int = <<"0">> => LeadingZeros(frac) <= 5

\* The texts a number prints to with an exponent: one leading digit, a
\* fraction without trailing zeros, and an exponent of at least 21 or at
\* most -7.
ExponentNumberText(u) ==
  LET ePos == IndexOf(u, "e")
      mant == Take(u, ePos - 1)
      rest == Drop(u, ePos)
      digits == Tail(rest)
  IN /\ ePos > 1
     /\ Len(rest) >= 2
     /\ rest[1] \in {"+", "-"}
     /\ CanonicalInt(digits)
     /\ Len(digits) <= 2
     /\ mant[1] \in DigitChars \ {"0"}
     /\ Len(mant) > 1 => mant[2] = "." /\ CanonicalFraction(Drop(mant, 2))
     /\ rest[1] = "+" => DigitsToInt(digits) >= 21
     /\ rest[1] = "-" => DigitsToInt(digits) >= 7

UnsignedNumberText(u) ==
  Len(u) > 0 /\ (IF Includes(u, "e") THEN ExponentNumberText(u) ELSE PlainNumberText(u))

\* The non-empty strings that converting to a number and back to a string
\* leaves unchanged.
CanonicalNumberText(s) ==
  \/ s \in {<<"I","n","f","i","n","i","t","y">>, <<"-","I","n","f","i","n","i","t","y">>}
  \/ UnsignedNumberText(s)
  \/ Len(s) > 1 /\ s[1] = "-" /\ UnsignedNumberText(Tail(s)) /\ Tail(s) # <<"0">>

\* leaf is what the coercion rule makes of a raw filter value.
CoercedFrom(value, leaf) ==
  IF value.t # "string" THEN leaf = value
  ELSE IF value.v = strTrue THEN leaf = Bool(TRUE)
  ELSE IF value.v = strFalse THEN leaf = Bool(FALSE)
  ELSE IF CanonicalNumberText(value.v)
       THEN leaf.t = "number" /\ NumberToString(leaf) = value.v
  ELSE leaf = value

\* No other filter path of raw is a dot-prefix of the path of key k or
\* extends it.
Uncontested(k) ==
  \A k2 \in RawFilterKeys \ {k} :
    /\ ~IsPrefix(SegmentsOf(k), SegmentsOf(k2))
    /\ ~IsPrefix(SegmentsOf(k2), SegmentsOf(k))

StoredLeaf(k) == OwnPathGet(WhereOf(result), SegmentsOf(k))

-----------------------------------------------------------------------------
(* C4: nested filter construction                                          *)

\* C4: for filter paths none of which is a proper dot-prefix of another,
\* where holds the coerced value at the nested path of every filters key
\* and has no other leaves.
C4_NestedFilters ==
  (Called /\ IsObj(raw) /\ result.success /\ RawFilterKeys # {} /\ NonConflicting) =>
    /\ HasData(strWhere)
    /\ \A k \in RawFilterKeys :
         /\ StoredLeaf(k) # Undefined
         /\ CoercedFrom(OwnGet(raw, k), StoredLeaf(k))
    /\ \A path \in LeafPaths(WhereOf(result)) :
         \E k \in RawFilterKeys : IsPrefix(SegmentsOf(k), path)

-----------------------------------------------------------------------------
(* C5: nested field selection                                              *)

FieldsSupplied == IsObj(raw) /\ HasOwn(raw, strFields)

\* The entries of the fields string: split on commas, trimmed, empty
\* entries dropped.
KeptEntries ==
  LET parts == Split(ToStr(OwnGet(raw, strFields)), ",")
  IN SelectSeq([i \in 1..Len(parts) |-> Trim(parts[i])], LAMBDA f : Len(f) > 0)

FieldPaths == {Split(KeptEntries[i], ".") : i \in 1..Len(KeptEntries)}

\* The object at loc holds segs[1]: {select: {segs[2]: ... : true}}, as
\* property reads see it.
RECURSIVE SelectHolds(_, _, _)
SelectHolds(S, loc, segs) ==
  LET at == Lookup(S, loc, segs[1])
      sel == Lookup(S, at.loc, strSelect)
  IN /\ at.found
     /\ IF Len(segs) = 1 THEN Deref(S, at.loc) = Bool(TRUE)
        ELSE /\ IsObj(Deref(S, at.loc))
             /\ sel.found
             /\ SelectHolds(S, sel.loc, Tail(segs))

\* C5: the entries of fields are split on commas, trimmed and the empty
\* ones dropped; for paths none of which is a proper dot-prefix of
\* another, the select tree holds every path s1.s2...sn as
\* s1: {select: {s2: ... sn: true}}, a path without a dot being true at
\* the top level.
C5_NestedSelect ==
  (Called /\ FieldsSupplied /\ result.success /\ FieldPaths # {}
     /\ \A p1, p2 \in FieldPaths : p1 # p2 => ~IsPrefix(p1, p2)) =>
    /\ HasData(strSelect)
    /\ \A segs \in FieldPaths :
         SelectHolds([own |-> OwnGet(result.data, strSelect), P |-> objectPrototype],
                     OwnRoot, segs)

-----------------------------------------------------------------------------
(* C6: sort projection                                                     *)

SortSupplied == IsObj(raw) /\ HasOwn(raw, strSort)

SortTerms == Split(ToStr(OwnGet(raw, strSort)), ",")

TermField(term) ==
  IF Includes(term, ":") THEN Take(term, IndexOf(term, ":") - 1) ELSE term

TermDirection(term) ==
  IF Includes(term, ":") THEN Drop(term, IndexOf(term, ":")) ELSE strAsc

OrderByOf(res) == OwnGet(res.data, strOrderBy)

\* C6: for a sort string accepted by validation, orderBy has exactly one
\* entry per comma-separated term, in the order of the terms; each entry
\* maps the field of its term to the direction of the term, asc when the
\* term has none; a repeated field gives two entries.
C6_SortProjection ==
  (Called /\ SortSupplied /\ result.success) =>
    /\ HasData(strOrderBy)
    /\ OrderByOf(result).t = "array"
    /\ Len(OrderByOf(result).v) = Len(SortTerms)
    /\ \A i \in 1..Len(SortTerms) :
         OrderByOf(result).v[i] =
           Obj(<<Prop(TermField(SortTerms[i]), Str(TermDirection(SortTerms[i])))>>)

\* A sort string of three terms, one field repeated, one term without a
\* direction, has been projected.
C6_Witness ==
  /\ Called /\ SortSupplied /\ result.success
  /\ Len(SortTerms) = 3
  /\ TermField(SortTerms[1]) = TermField(SortTerms[3])
  /\ ~Includes(SortTerms[1], ":")
  /\ TermDirection(SortTerms[2]) = strDesc
  /\ Len(OrderByOf(result).v) = 3

-----------------------------------------------------------------------------
(* C7: failure shape                                                       *)

FailureShape(res) ==
  /\ res.success = FALSE <=> Len(res.errors) > 0
  /\ res.success = FALSE => res.data = Obj(<< >>)

-----------------------------------------------------------------------------
(* C8: validation aggregation                                              *)

\* A page or limit value that is not a base-10 integer of at least 1.
CountInvalid(value) ==
  IsNaN(parseInt(value)) \/ ToInt(parseInt(value)) < 1

\* token or token:dir with dir asc or desc in any letter case.
GrammarTerm(term) ==
  /\ IsToken(TermField(term))
  /\ Includes(term, ":") => ToLowerCase(Drop(term, IndexOf(term, ":"))) \in {strAsc, strDesc}

SortInvalid(value) ==
  \E i \in 1..Len(Split(ToStr(value), ",")) : ~GrammarTerm(Split(ToStr(value), ",")[i])

FieldsInvalid ==
  \E i \in 1..Len(KeptEntries) : ~AllIn(KeptEntries[i], WordChars \cup {"."})

OptionInvalid(k) ==
  /\ HasOwn(raw, k)
  /\ CASE k \in {strPage, strLimit} -> CountInvalid(OwnGet(raw, k))
       [] k = strSort -> SortInvalid(OwnGet(raw, k))
       [] OTHER -> FieldsInvalid

\* C8: for any raw map, errors has a key for every one of page, limit,
\* sort and fields whose value is invalid and no key for one that is valid
\* or absent, and the result is unsuccessful when there is such a key.
C8_Aggregation ==
  (Called /\ IsObj(raw)) =>
    \A k \in {strPage, strLimit, strSort, strFields} :
      /\ k \in ErrorKeys(result.errors) <=> OptionInvalid(k)
      /\ OptionInvalid(k) => ~result.success

-----------------------------------------------------------------------------
(* C9: error key set                                                       *)

\* C9: every key of errors is one of page, limit, sort, fields, general;
\* an invalid entry of fields is reported under the key fields.
C9_ErrorKeys ==
  Called =>
    /\ ErrorKeys(result.errors) \subseteq {strPage, strLimit, strSort, strFields, strGeneral}
    /\ (FieldsSupplied /\ FieldsInvalid) => strFields \in ErrorKeys(result.errors)

-----------------------------------------------------------------------------
(* C10: parseQuery never throws                                            *)

\* C10: a raw input that is not an object (null, undefined, a string, a
\* number) gives success = false, empty data and errors with the single
\* key general.
C10_NonObjectInput ==
  (Called /\ ~IsObj(raw)) =>
    /\ result.success = FALSE
    /\ result.data = Obj(<< >>)
    /\ ErrorKeys(result.errors) = {strGeneral}

-----------------------------------------------------------------------------
(* Direct calls of serializeQuery                                          *)
(*                                                                         *)
(* A behaviour of SerializeSpec is one call serializeQuery(options,        *)
(* config) on an options object written by the caller, as in the tests of  *)
(* the serializer.                                                         *)

SerializerPages ==
  {Undefined, IntNum(1), IntNum(2), IntNum(0), IntNum(-1), Num(25, -1),
   Str(<<"2">>), Str(<<"a">>), Null}

SerializerLimits == {Undefined, IntNum(10), IntNum(-10), Num(5, -1), Null}

SerializerSorts ==
  {Undefined, Str(<<"n", "a", "m", "e", ":", "a", "s", "c">>), Str(<<"n", "a", "m", "e", ":", "a", "s", "c", ",", "c", "r", "e", "a", "t", "e", "d", "A", "t", ":", "d", "e", "s", "c">>), Str(<< >>), Null}

SerializerFields ==
  {Undefined,
   Null,
   Arr(<< >>),
   Arr(<<Str(<<"i", "d">>), Str(<<"n", "a", "m", "e">>)>>),
   Arr(<<Str(<<"i", "d">>)>>),
   Arr(<<IntNum(1), IntNum(2)>>),
   Arr(<<Str(<<"i", "d">>), Null>>)}

SerializerFilters ==
  {Undefined,
   Null,
   Obj(<< >>),
   Obj(<<Prop(<<"s", "t", "a", "t", "u", "s">>, Str(<<"a", "c", "t", "i", "v", "e">>))>>),
   Obj(<<Prop(<<"p", "r", "o", "f", "i", "l", "e">>, Obj(<<Prop(<<"f", "i", "r", "s", "t", "N", "a", "m", "e">>, Str(<<"J", "o", "h", "n">>)),
                                Prop(<<"l", "a", "s", "t", "N", "a", "m", "e">>, Str(<<"D", "o", "e">>))>>)),
         Prop(<<"a", "g", "e">>, IntNum(30))>>),
   Obj(<<Prop(<<"u", "s", "e", "r">>, Obj(<<Prop(<<"p", "r", "o", "f", "i", "l", "e">>, Obj(<<Prop(<<"a", "d", "d", "r", "e", "s", "s">>,
           Obj(<<Prop(<<"c", "i", "t", "y">>, Str(<<"N", "e", "w", " ", "Y", "o", "r", "k">>)), Prop(<<"z", "i", "p">>, IntNum(10001))>>))>>))>>))>>),
   Obj(<<Prop(<<"t", "a", "g", "s">>, Arr(<<Str(<<"j", "a", "v", "a", "s", "c", "r", "i", "p", "t">>), Str(<<"t", "y", "p", "e", "s", "c", "r", "i", "p", "t">>)>>)),
         Prop(<<"u", "s", "e", "r">>, Obj(<<Prop(<<"r", "o", "l", "e", "s">>, Arr(<<Str(<<"a", "d", "m", "i", "n">>), Str(<<"e", "d", "i", "t", "o", "r">>)>>))>>))>>),
   Obj(<<Prop(<<"a">>, Null), Prop(<<"b">>, Undefined), Prop(<<"c">>, Str(<<"x">>))>>),
   Obj(<<Prop(<<"a">>, Obj(<<Prop(<<"b">>, Null)>>)), Prop(<<"d">>, Bool(FALSE))>>),
   Obj(<<Prop(<<"a">>, Obj(<< >>))>>),
   Obj(<<Prop(<<"a">>, Bool(FALSE)), Prop(<<"n">>, IntNum(0)), Prop(<<"s">>, Str(<< >>))>>),
   Obj(<<Prop(<<"a">>, Arr(<<IntNum(1), Arr(<<IntNum(2), IntNum(3)>>)>>)),
         Prop(<<"e">>, Arr(<< >>))>>),
   Obj(<<Prop(<<"a">>, Arr(<<Null, Str(<<"x">>)>>))>>),
   Obj(<<Prop(<<"a">>, Arr(<<Obj(<<Prop(<<"b">>, IntNum(1))>>)>>))>>),
   Obj(<<Prop(<<"a">>, Obj(<<Prop(<<"b">>, IntNum(2)), Prop(<<"c">>, Num(45, -1))>>)),
         Prop(<<"b">>, Str(<<"a", "&", "b", "=", "c">>))>>),
   Obj(<<Prop(<< >>, Obj(<<Prop(<<"b">>, Str(<<"x">>))>>))>>),
   Obj(<<Prop(<< >>, IntNum(1))>>),
   Obj(<<Prop(<<"a">>, Obj(<<Prop(<< >>, IntNum(1))>>))>>),
   Obj(<<Prop(<<"a", ".", "b">>, IntNum(1)), Prop(<<"a">>, Obj(<<Prop(<<"b">>, IntNum(2))>>))>>),
   Obj(<<Prop(<<"a">>, Obj(<<Prop(<<"b">>, IntNum(2))>>)), Prop(<<"a", ".", "b">>, Null)>>)}

\* An options object as the caller writes it: the fields that are given.
OptionsObject(page, limit, sort, fields, filters) ==
  Obj(OptionEntries(page, limit, sort, fields)
      \o (IF filters = Undefined THEN << >> ELSE <<Prop(strFilters, filters)>>))

SerializerOptions ==
  {OptionsObject(pg, lm, Undefined, Undefined, Undefined) :
     pg \in SerializerPages, lm \in SerializerLimits}
  \cup {OptionsObject(Undefined, Undefined, st, fl, Undefined) :
          st \in SerializerSorts, fl \in SerializerFields}
  \cup {OptionsObject(Undefined, Undefined, Undefined, Undefined, ft) :
          ft \in SerializerFilters}
  \cup {OptionsObject(pg, IntNum(10), Str(<<"n", "a", "m", "e", ":", "a", "s", "c", ",", "c", "r", "e", "a", "t", "e", "d", "A", "t", ":", "d", "e", "s", "c">>), fl, ft) :
          pg \in {IntNum(2), Null},
          fl \in {Arr(<<Str(<<"i", "d">>), Str(<<"n", "a", "m", "e">>)>>), Arr(<< >>)},
          ft \in {Obj(<<Prop(<<"s", "t", "a", "t", "u", "s">>, Str(<<"a", "c", "t", "i", "v", "e">>))>>), Obj(<< >>)}}

\* The second argument of the call; undefined when it is not given.
SerializerConfigs ==
  {Undefined,
   Obj(<< >>),
   Obj(<<Prop(strQuestionMark, Bool(TRUE))>>),
   Obj(<<Prop(strQuestionMark, Bool(FALSE))>>),
   Obj(<<Prop(strQuestionMark, Null)>>),
   Obj(<<Prop(strPrettyPrint, Bool(TRUE))>>),
   Obj(<<Prop(strQuestionMark, Bool(FALSE)), Prop(strPrettyPrint, Bool(TRUE))>>)}

\* No call of parseQuery is made in this behaviour.
ParserIdle ==
  /\ phase = "idle"
  /\ raw = Undefined
  /\ result = NotCalled
  /\ objectPrototype = PristinePrototype
  /\ queryString = NotCalled
  /\ reconstructedParams = NotCalled
  /\ secondParseResult = NotCalled
  /\ rawAfterCall = NotCalled

SerializeInit ==
  /\ givenOptions \in SerializerOptions
  /\ givenConfig \in SerializerConfigs
  /\ serialized = NotCalled
  /\ ParserIdle
  /\ MergeIdle

\* The parameter default config = { startWithQuestionMark: true }.
configOrDefault(configArg) ==
  IF configArg = Undefined THEN DefaultConfig ELSE configArg

\* const result = serializeQuery(options, config)
SerializeOptions ==
  /\ serialized = NotCalled
  /\ serialized' = [called |-> TRUE,
                    outcome |-> serializeQuery(givenOptions, configOrDefault(givenConfig),
                                               objectPrototype)]
  /\ UNCHANGED <<givenOptions, givenConfig, parserVars, mergeVars>>

SerializeNext == SerializeOptions

SerializeSpec == SerializeInit /\ [][SerializeNext]_vars

-----------------------------------------------------------------------------
(* Notions used to state the properties of serializeQuery                  *)

SerializerCalled == serialized # NotCalled

\* The call returned a string.
Returned == SerializerCalled /\ ~serialized.outcome.threw

\* The options pass serializeSchema.
ValidOptions == serializeSchemaOk(givenOptions, objectPrototype)

GivenFilters == OwnGet(givenOptions, strFilters)

\* The paths of the leaves of filters that are neither null nor undefined.
EmittedLeaves ==
  IF IsObj(GivenFilters)
  THEN {p \in LeafPaths(GivenFilters) :
          OwnPathGet(GivenFilters, p).t \notin {"null", "undefined"}}
  ELSE {}

FilterPairKey(p) == strFiltersOpen \o Join(p, <<".">>) \o <<"]">>

\* The pairs of the returned string, decoded, and those of them whose name
\* begins with filters[.
SerializedPairs == ParamsParse(serialized.outcome.value)

FilterPairs == SelectSeq(SerializedPairs, LAMBDA pr : StartsWith(pr.k, strFiltersOpen))

PrettyPrintAsked == Truthy(OwnGet(configOrDefault(givenConfig), strPrettyPrint))

-----------------------------------------------------------------------------
(* C11: filter flattening                                                  *)

\* C11: for options that pass the schema, serializeQuery returns a string
\* in which every leaf of filters that is neither null nor undefined,
\* reached through nested plain objects only (an array being a leaf), has
\* one pair named filters[<segments joined by '.'>] with value
\* String(leaf), and there are exactly as many filters[...] pairs as there
\* are such leaves.
C11_FilterFlattening ==
  (SerializerCalled /\ ValidOptions /\ ~PrettyPrintAsked) =>
    /\ Returned
    /\ \A p \in EmittedLeaves :
         \E i \in 1..Len(FilterPairs) :
           FilterPairs[i] = Prop(FilterPairKey(p), ToStr(OwnPathGet(GivenFilters, p)))
    /\ Len(FilterPairs) = Cardinality(EmittedLeaves)

-----------------------------------------------------------------------------
(* C12: the question-mark prefix                                           *)

\* The value given for startWithQuestionMark, undefined when config or the
\* flag is not given.
GivenFlag ==
  IF givenConfig = Undefined THEN Undefined ELSE OwnGet(givenConfig, strQuestionMark)

\* The config of the call with startWithQuestionMark set to false.
UnmarkedConfig == PutOwn(configOrDefault(givenConfig), strQuestionMark, Bool(FALSE))

\* No pair is emitted for the options: no page, no limit, no sort text, no
\* field and no filter leaf other than null and undefined.
NoPairEmitted ==
  /\ OwnGet(givenOptions, strPage) = Undefined
  /\ OwnGet(givenOptions, strLimit) = Undefined
  /\ OwnGet(givenOptions, strSort) \in {Undefined, Null, Str(<< >>)}
  /\ OwnGet(givenOptions, strFields) \in {Undefined, Null, Arr(<< >>)}
  /\ EmittedLeaves = {}

\* C12: for options that pass the schema, serializeQuery returns a string;
\* with startWithQuestionMark true or not given it is '?' followed by the
\* string returned for the same options with the flag false, with the flag
\* false it does not carry the '?'; for options that emit no pair the two
\* strings are exactly '?' and ''.
C12_QuestionMark ==
  (SerializerCalled /\ ValidOptions /\ GivenFlag \in {Undefined, Bool(TRUE), Bool(FALSE)}) =>
    /\ Returned
    /\ With(serializeQuery(givenOptions, UnmarkedConfig, objectPrototype), LAMBDA unmarked :
         /\ ~unmarked.threw
         /\ serialized.outcome.value =
              (IF GivenFlag = Bool(FALSE) THEN << >> ELSE <<"?">>) \o unmarked.value
         /\ NoPairEmitted => unmarked.value = << >>)

-----------------------------------------------------------------------------
(* C13: validation is all-or-nothing                                       *)

\* A page or limit that is given (null counting as not given) and is not
\* an integer >= 1.
CountViolates(value) ==
  /\ value.t \notin {"undefined", "null"}
  /\ ~(value.t = "number" /\ IsInteger(value) /\ value.v.m >= 1)

\* A fields value that is given and is not a sequence of strings.
FieldsViolates(value) ==
  /\ value.t \notin {"undefined", "null"}
  /\ ~(value.t = "array" /\ \A i \in 1..Len(value.v) : value.v[i].t = "string")

\* A filters value that is given and is not an object.
FiltersViolates(value) == value.t \notin {"undefined", "null", "object"}

ViolatesSchema ==
  \/ CountViolates(OwnGet(givenOptions, strPage))
  \/ CountViolates(OwnGet(givenOptions, strLimit))
  \/ FieldsViolates(OwnGet(givenOptions, strFields))
  \/ FiltersViolates(OwnGet(givenOptions, strFilters))

\* C13: a call of serializeQuery on options that violate the schema (page
\* or limit not an integer >= 1, fields not a sequence of strings, filters
\* not an object) raises an error and returns no string; equivalently, a
\* call that returns a string was given options that satisfy the schema.
C13_AllOrNothing ==
  (SerializerCalled /\ ViolatesSchema) => ~Returned

-----------------------------------------------------------------------------
(* merge.ts: objects by reference                                          *)
(*                                                                         *)
(* mergeQueries copies references: result.where = parsedQuery.where makes  *)
(* the result share an object with its argument.  The queries therefore    *)
(* live in a heap, a sequence of cells; a cell is an object or an array    *)
(* whose property values and items are primitives or references to cells.  *)
(* The property names of the queries are ordinary names, never __proto__,  *)
(* and Object.prototype is as the engine defines it.                       *)

strInclude == <<"i", "n", "c", "l", "u", "d", "e">>

strOmit == <<"o", "m", "i", "t">>

strAND == <<"A", "N", "D">>

strWhereStrategy == <<"w", "h", "e", "r", "e", "S", "t", "r", "a", "t", "e", "g", "y">>

strSelectStrategy == <<"s", "e", "l", "e", "c", "t", "S", "t", "r", "a", "t", "e", "g", "y">>

strIncludeStrategy == <<"i", "n", "c", "l", "u", "d", "e", "S", "t", "r", "a", "t", "e", "g", "y">>

strOrderByStrategy == <<"o", "r", "d", "e", "r", "B", "y", "S", "t", "r", "a", "t", "e", "g", "y">>

strOmitStrategy == <<"o", "m", "i", "t", "S", "t", "r", "a", "t", "e", "g", "y">>

strReplace == <<"r", "e", "p", "l", "a", "c", "e">>

strSpread == <<"s", "p", "r", "e", "a", "d">>

strAnd == <<"a", "n", "d">>

strMerge == <<"m", "e", "r", "g", "e">>

strPrepend == <<"p", "r", "e", "p", "e", "n", "d">>

strAppend == <<"a", "p", "p", "e", "n", "d">>

\* The reference to the cell at address a.
Ref(a) == [t |-> "ref", v |-> a]

IsRef(x) == x.t = "ref"

\* A newly created object or array: the heap with its cell, and its reference.
Allocate(H, cell) == [H |-> Append(H, cell), ref |-> Ref(Len(H) + 1)]

\* item && typeof item === 'object' && !Array.isArray(item)
isObject(H, item) == IsRef(item) /\ H[item.v].t = "object"

\* Array.isArray(item)
isArray(H, item) == IsRef(item) /\ H[item.v].t = "array"

\* obj[key]: an own property, else a method inherited from Object.prototype.
GetProp(H, obj, key) ==
  IF isObject(H, obj) /\ HasOwn(H[obj.v], key) THEN OwnGet(H[obj.v], key)
  ELSE IF IsRef(obj) /\ IsBuiltinName(key) THEN Fn
  ELSE Undefined

\* key in obj
KeyIn(H, obj, key) == HasOwn(H[obj.v], key) \/ IsBuiltinName(key)

\* obj[key] = value
SetProp(H, obj, key, value) == [H EXCEPT ![obj.v] = PutOwn(@, key, value)]

\* The own enumerable properties that ...source copies into an object literal.
ownEntries(H, source) ==
  IF isObject(H, source) THEN H[source.v].v
  ELSE IF isArray(H, source)
       THEN [i \in 1..Len(H[source.v].v) |-> Prop(IntToDigits(i - 1), H[source.v].v[i])]
  ELSE << >>

\* The properties of an object literal after ...entries is evaluated in it.
RECURSIVE spreadOver(_, _)
spreadOver(o, entries) ==
  IF Len(entries) = 0 THEN o
  ELSE spreadOver(PutOwn(o, entries[1].k, entries[1].v), Tail(entries))

\* { ...source } with the argument itself returned: no copy is made.
objectSpreadAlias(H, source) == [H |-> H, ref |-> source]

\* { ...source }
objectSpread(H, source) == Allocate(H, Obj(ownEntries(H, source)))

\* { ...first, ...second }
objectSpread2(H, first, second) ==
  Allocate(H, spreadOver(Obj(ownEntries(H, first)), ownEntries(H, second)))

-----------------------------------------------------------------------------
(* merge.ts: deepMerge                                                     *)

\* deepMerge without the recursion: the value of source replaces that of
\* target under every key.
deepMergeShallow(H, target, source) == objectSpread2(H, target, source)

\* deepMerge(target, source); deepMergeKeys is the forEach over
\* Object.keys(source), keys being the keys not yet visited.
RECURSIVE deepMerge(_, _, _)
RECURSIVE deepMergeKeys(_, _, _, _, _)
deepMerge(H, target, source) ==
  With(objectSpread(H, target), LAMBDA out :
    IF isObject(out.H, target) /\ isObject(out.H, source)
    THEN deepMergeKeys(out.H, out.ref, target, source, OwnKeys(out.H[source.v]))
    ELSE out)

deepMergeKeys(H, output, target, source, keys) ==
  IF Len(keys) = 0 THEN [H |-> H, ref |-> output]
  ELSE With(GetProp(H, source, keys[1]), LAMBDA sourceValue :
         IF /\ isObject(H, sourceValue)
            /\ KeyIn(H, target, keys[1])
            /\ isObject(H, GetProp(H, target, keys[1]))
         THEN With(deepMerge(H, GetProp(H, target, keys[1]), sourceValue), LAMBDA sub :
                deepMergeKeys(SetProp(sub.H, output, keys[1], sub.ref),
                              output, target, source, Tail(keys)))
         ELSE deepMergeKeys(SetProp(H, output, keys[1], sourceValue),
                            output, target, source, Tail(keys)))

-----------------------------------------------------------------------------
(* merge.ts: mergeQueries                                                  *)

\* A strategy of the options, with its default when it is not given.
strategyOf(optionsArg, name, default) ==
  With(IF IsObj(optionsArg) THEN OwnGet(optionsArg, name) ELSE Undefined, LAMBDA chosen :
    IF chosen = Undefined THEN Str(default) ELSE chosen)

\* The where block with incoming's where wrapped under AND even when the
\* result has no where yet.
mergeWhereWrapping(H, resultRef, parsedArg, whereStrategy) ==
  With(GetProp(H, parsedArg, strWhere), LAMBDA incoming :
    IF ~Truthy(incoming) THEN H
    ELSE IF whereStrategy = Str(strReplace) THEN SetProp(H, resultRef, strWhere, incoming)
    ELSE IF whereStrategy = Str(strAnd)
         THEN With(Allocate(H, Arr(<<GetProp(H, resultRef, strWhere), incoming>>)), LAMBDA list :
                With(Allocate(list.H, Obj(<<Prop(strAND, list.ref)>>)), LAMBDA wrapped :
                  SetProp(wrapped.H, resultRef, strWhere, wrapped.ref)))
    ELSE With(objectSpread2(H, GetProp(H, resultRef, strWhere), incoming), LAMBDA both :
           SetProp(both.H, resultRef, strWhere, both.ref)))

\* The block "Handle 'where' conditions based on strategy": the heap after it.
mergeWhere(H, resultRef, parsedArg, whereStrategy) ==
  With(GetProp(H, parsedArg, strWhere), LAMBDA incoming :
    IF ~Truthy(incoming) THEN H
    ELSE IF ~Truthy(GetProp(H, resultRef, strWhere))
         THEN SetProp(H, resultRef, strWhere, incoming)
    ELSE IF whereStrategy = Str(strReplace) THEN SetProp(H, resultRef, strWhere, incoming)
    ELSE IF whereStrategy = Str(strAnd)
         THEN With(Allocate(H, Arr(<<GetProp(H, resultRef, strWhere), incoming>>)), LAMBDA list :
                With(Allocate(list.H, Obj(<<Prop(strAND, list.ref)>>)), LAMBDA wrapped :
                  SetProp(wrapped.H, resultRef, strWhere, wrapped.ref)))
    ELSE With(objectSpread2(H, GetProp(H, resultRef, strWhere), incoming), LAMBDA both :
           SetProp(both.H, resultRef, strWhere, both.ref)))

\* A select, include or omit block that assigns incoming's field without
\* testing that incoming has it.
mergeTreeAssigning(H, resultRef, parsedArg, field, strategy) ==
  SetProp(H, resultRef, field, GetProp(H, parsedArg, field))

\* The blocks that handle select, include and omit, for the given field
\* and its strategy: the heap after the block.
mergeTree(H, resultRef, parsedArg, field, strategy) ==
  With(GetProp(H, parsedArg, field), LAMBDA incoming :
    IF ~Truthy(incoming) THEN H
    ELSE IF ~Truthy(GetProp(H, resultRef, field)) THEN SetProp(H, resultRef, field, incoming)
    ELSE IF strategy = Str(strReplace) THEN SetProp(H, resultRef, field, incoming)
    ELSE With(deepMerge(H, GetProp(H, resultRef, field), incoming), LAMBDA both :
           SetProp(both.H, resultRef, field, both.ref)))

\* list.length, and list?.length for a list that is null or undefined.
lengthOf(H, list) ==
  IF isArray(H, list) THEN IntNum(Len(H[list.v].v))
  ELSE IF list.t = "string" THEN IntNum(Len(list.v))
  ELSE GetProp(H, list, strLength)

\* The items that ...list adds to an array literal.
spreadItems(H, list) == IF isArray(H, list) THEN H[list.v].v ELSE << >>

\* The orderBy block with the lists concatenated the other way round.
mergeOrderBySwapped(H, resultRef, parsedArg, orderByStrategy) ==
  With(GetProp(H, parsedArg, strOrderBy), LAMBDA incoming :
    With(GetProp(H, resultRef, strOrderBy), LAMBDA current :
      IF ~Truthy(lengthOf(H, incoming)) THEN H
      ELSE IF ~Truthy(current) \/ ~Truthy(lengthOf(H, current))
           THEN SetProp(H, resultRef, strOrderBy, incoming)
      ELSE IF orderByStrategy = Str(strReplace) THEN SetProp(H, resultRef, strOrderBy, incoming)
      ELSE With(Allocate(H, Arr(IF orderByStrategy = Str(strAppend)
                                THEN spreadItems(H, incoming) \o spreadItems(H, current)
                                ELSE spreadItems(H, current) \o spreadItems(H, incoming))),
                LAMBDA list : SetProp(list.H, resultRef, strOrderBy, list.ref))))

\* The block "Handle 'orderBy' based on strategy": the heap after it.
mergeOrderBy(H, resultRef, parsedArg, orderByStrategy) ==
  With(GetProp(H, parsedArg, strOrderBy), LAMBDA incoming :
    With(GetProp(H, resultRef, strOrderBy), LAMBDA current :
      IF ~Truthy(lengthOf(H, incoming)) THEN H
      ELSE IF ~Truthy(current) \/ ~Truthy(lengthOf(H, current))
           THEN SetProp(H, resultRef, strOrderBy, incoming)
      ELSE IF orderByStrategy = Str(strReplace) THEN SetProp(H, resultRef, strOrderBy, incoming)
      ELSE With(Allocate(H, Arr(IF orderByStrategy = Str(strAppend)
                                THEN spreadItems(H, current) \o spreadItems(H, incoming)
                                ELSE spreadItems(H, incoming) \o spreadItems(H, current))),
                LAMBDA list : SetProp(list.H, resultRef, strOrderBy, list.ref))))

\* A pagination block that tests incoming's value for truthiness.
mergePaginationTruthy(H, resultRef, parsedArg, field) ==
  With(GetProp(H, parsedArg, field), LAMBDA incoming :
    IF Truthy(incoming) THEN SetProp(H, resultRef, field, incoming) ELSE H)

\* The blocks "if (parsedQuery.skip !== undefined)" and the same for take.
mergePagination(H, resultRef, parsedArg, field) ==
  With(GetProp(H, parsedArg, field), LAMBDA incoming :
    IF incoming # Undefined THEN SetProp(H, resultRef, field, incoming) ELSE H)

\* mergeQueries(defaultQuery, parsedQuery, options) on the heap H: the heap
\* after the call and the reference it returns.
mergeQueries(H, defaultArg, parsedArg, optionsArg) ==
  With(objectSpread(H, defaultArg), LAMBDA copy :
    With(mergeWhere(copy.H, copy.ref, parsedArg,
                    strategyOf(optionsArg, strWhereStrategy, strSpread)), LAMBDA H1 :
      With(mergeTree(H1, copy.ref, parsedArg, strSelect,
                     strategyOf(optionsArg, strSelectStrategy, strMerge)), LAMBDA H2 :
        With(mergeTree(H2, copy.ref, parsedArg, strInclude,
                       strategyOf(optionsArg, strIncludeStrategy, strMerge)), LAMBDA H3 :
          With(mergeTree(H3, copy.ref, parsedArg, strOmit,
                         strategyOf(optionsArg, strOmitStrategy, strMerge)), LAMBDA H4 :
            With(mergeOrderBy(H4, copy.ref, parsedArg,
                              strategyOf(optionsArg, strOrderByStrategy, strPrepend)),
                 LAMBDA H5 :
                   With(mergePagination(H5, copy.ref, parsedArg, strSkip), LAMBDA H6 :
                     [H |-> mergePagination(H6, copy.ref, parsedArg, strTake),
                      ref |-> copy.ref])))))))

-----------------------------------------------------------------------------
(* Uses of mergeQueries                                                    *)
(*                                                                         *)
(* A behaviour of MergeSpec is a caller that builds a default query and a  *)
(* parsed query, merges them, possibly changes something in the result it  *)
(* got, and merges the same default query with a later parsed query.       *)

\* The object or array written as the literal tree, built on the heap: the
\* nested literals are created first, each in a cell of its own.
RECURSIVE StoreTree(_, _)
RECURSIVE StoreItems(_, _, _, _)
StoreTree(H, tree) ==
  IF tree.t \in {"object", "array"}
  THEN With(StoreItems(H, tree.v, << >>, tree.t = "object"), LAMBDA inner :
         Allocate(inner.H, [t |-> tree.t, v |-> inner.items]))
  ELSE [H |-> H, ref |-> tree]

StoreItems(H, items, done, asProps) ==
  IF Len(items) = 0 THEN [H |-> H, items |-> done]
  ELSE With(StoreTree(H, IF asProps THEN items[1].v ELSE items[1]), LAMBDA stored :
         StoreItems(stored.H, Tail(items),
                    Append(done, IF asProps THEN Prop(items[1].k, stored.ref) ELSE stored.ref),
                    asProps))

\* The value x read back from the heap as a tree.
RECURSIVE Reify(_, _)
Reify(H, x) ==
  IF ~IsRef(x) THEN x
  ELSE IF H[x.v].t = "object"
       THEN Obj([i \in 1..Len(H[x.v].v) |-> Prop(H[x.v].v[i].k, Reify(H, H[x.v].v[i].v))])
  ELSE Arr([i \in 1..Len(H[x.v].v) |-> Reify(H, H[x.v].v[i])])

\* The addresses of the cells reachable from x.
RECURSIVE Reachable(_, _)
Reachable(H, x) ==
  IF ~IsRef(x) THEN {}
  ELSE {x.v} \cup
       UNION {Reachable(H, IF H[x.v].t = "object" THEN H[x.v].v[i].v ELSE H[x.v].v[i]) :
                i \in 1..Len(H[x.v].v)}

\* A query with the fields that are given.
QueryObject(where, select, include, omit, orderBy, skip, take) ==
  Obj((IF where = Undefined THEN << >> ELSE <<Prop(strWhere, where)>>)
      \o (IF select = Undefined THEN << >> ELSE <<Prop(strSelect, select)>>)
      \o (IF include = Undefined THEN << >> ELSE <<Prop(strInclude, include)>>)
      \o (IF omit = Undefined THEN << >> ELSE <<Prop(strOmit, omit)>>)
      \o (IF orderBy = Undefined THEN << >> ELSE <<Prop(strOrderBy, orderBy)>>)
      \o (IF skip = Undefined THEN << >> ELSE <<Prop(strSkip, skip)>>)
      \o (IF take = Undefined THEN << >> ELSE <<Prop(strTake, take)>>))

WhereTrees ==
  {Undefined,
   Obj(<< >>),
   Obj(<<Prop(<<"d", "e", "l", "e", "t", "e", "d", "A", "t">>, Null)>>),
   Obj(<<Prop(<<"s", "t", "a", "t", "u", "s">>, Str(<<"a", "c", "t", "i", "v", "e">>)), Prop(<<"a", "g", "e">>, Obj(<<Prop(<<"g", "t", "e">>, IntNum(18))>>))>>),
   Obj(<<Prop(<<"s", "t", "a", "t", "u", "s">>, Str(<<"a", "r", "c", "h", "i", "v", "e", "d">>)), Prop(<<"d", "e", "l", "e", "t", "e", "d", "A", "t">>, Null),
         Prop(<<"a", "g", "e">>, Obj(<<Prop(<<"l", "t">>, IntNum(65))>>))>>)}

SelectTrees ==
  {Undefined,
   Obj(<<Prop(<<"i", "d">>, Bool(TRUE)), Prop(<<"n", "a", "m", "e">>, Bool(TRUE))>>),
   Obj(<<Prop(<<"e", "m", "a", "i", "l">>, Bool(TRUE)),
         Prop(<<"p", "r", "o", "f", "i", "l", "e">>, Obj(<<Prop(strSelect, Obj(<<Prop(<<"b", "i", "o">>, Bool(TRUE))>>))>>))>>),
   Obj(<<Prop(<<"i", "d">>, Bool(TRUE)),
         Prop(<<"p", "r", "o", "f", "i", "l", "e">>, Obj(<<Prop(strSelect, Obj(<<Prop(<<"a", "v", "a", "t", "a", "r">>, Bool(TRUE))>>))>>))>>),
   Obj(<<Prop(<<"p", "r", "o", "f", "i", "l", "e">>, Bool(TRUE)), Prop(<<"i", "d">>, Bool(FALSE))>>),
   Obj(<<Prop(<<"p", "r", "o", "f", "i", "l", "e">>, Obj(<<Prop(strSelect, Obj(<<Prop(<<"b", "i", "o">>, Bool(FALSE)),
                                                      Prop(<<"a", "v", "a", "t", "a", "r">>, Null)>>))>>))>>),
   Obj(<<Prop(<<"c", "o", "n", "s", "t", "r", "u", "c", "t", "o", "r">>, Obj(<<Prop(strSelect, Obj(<<Prop(<<"i", "d">>, Bool(TRUE))>>))>>)),
         Prop(<<"p", "r", "o", "f", "i", "l", "e">>, Arr(<<Str(<<"b", "i", "o">>)>>))>>),
   Obj(<< >>)}

IncludeTrees ==
  {Undefined,
   Obj(<<Prop(<<"p", "o", "s", "t", "s">>, Bool(TRUE))>>),
   Obj(<<Prop(<<"p", "o", "s", "t", "s">>, Obj(<<Prop(strInclude, Obj(<<Prop(<<"c", "o", "m", "m", "e", "n", "t", "s">>, Bool(TRUE))>>))>>)),
         Prop(<<"a", "u", "t", "h", "o", "r">>, Bool(TRUE))>>),
   Obj(<<Prop(<<"p", "o", "s", "t", "s">>, Obj(<<Prop(strWhere, Obj(<<Prop(<<"p", "u", "b", "l", "i", "s", "h", "e", "d">>, Bool(TRUE))>>))>>))>>)}

OmitTrees ==
  {Undefined,
   Obj(<<Prop(<<"p", "a", "s", "s", "w", "o", "r", "d">>, Bool(TRUE))>>),
   Obj(<<Prop(<<"p", "a", "s", "s", "w", "o", "r", "d">>, Bool(FALSE)), Prop(<<"s", "e", "c", "r", "e", "t">>, Bool(TRUE))>>)}

OrderByLists ==
  {Undefined,
   Arr(<< >>),
   Arr(<<Obj(<<Prop(<<"c", "r", "e", "a", "t", "e", "d", "A", "t">>, Str(strDesc))>>)>>),
   Arr(<<Obj(<<Prop(<<"n", "a", "m", "e">>, Str(strAsc))>>), Obj(<<Prop(<<"i", "d">>, Str(strDesc))>>)>>)}

SkipValues == {Undefined, IntNum(0), IntNum(20)}

TakeValues == {Undefined, IntNum(10), IntNum(5)}

\* An options object with the strategies that are given.
StrategyOptions(whereS, selectS, includeS, orderByS, omitS) ==
  Obj((IF whereS = Undefined THEN << >> ELSE <<Prop(strWhereStrategy, whereS)>>)
      \o (IF selectS = Undefined THEN << >> ELSE <<Prop(strSelectStrategy, selectS)>>)
      \o (IF includeS = Undefined THEN << >> ELSE <<Prop(strIncludeStrategy, includeS)>>)
      \o (IF orderByS = Undefined THEN << >> ELSE <<Prop(strOrderByStrategy, orderByS)>>)
      \o (IF omitS = Undefined THEN << >> ELSE <<Prop(strOmitStrategy, omitS)>>))

WhereStrategies == {Str(strReplace), Str(strSpread), Str(strAnd)}

TreeStrategies == {Str(strReplace), Str(strMerge)}

OrderByStrategies == {Str(strReplace), Str(strPrepend), Str(strAppend)}

\* Every combination of the five strategies.
AllStrategyOptions ==
  {StrategyOptions(ws, ss, is, os, ms) :
     ws \in WhereStrategies, ss \in TreeStrategies, is \in TreeStrategies,
     os \in OrderByStrategies, ms \in TreeStrategies}

\* The queries of the test "should handle a complete merge of all
\* properties", with include and omit added.
CompleteDefault ==
  QueryObject(Obj(<<Prop(<<"d", "e", "l", "e", "t", "e", "d", "A", "t">>, Null)>>),
              Obj(<<Prop(<<"i", "d">>, Bool(TRUE)),
                    Prop(<<"p", "r", "o", "f", "i", "l", "e">>, Obj(<<Prop(strSelect,
                                               Obj(<<Prop(<<"a", "v", "a", "t", "a", "r">>, Bool(TRUE))>>))>>))>>),
              Obj(<<Prop(<<"p", "o", "s", "t", "s">>, Bool(TRUE))>>),
              Obj(<<Prop(<<"p", "a", "s", "s", "w", "o", "r", "d">>, Bool(TRUE))>>),
              Arr(<<Obj(<<Prop(<<"c", "r", "e", "a", "t", "e", "d", "A", "t">>, Str(strDesc))>>)>>),
              IntNum(0), IntNum(10))

CompleteParsed ==
  QueryObject(Obj(<<Prop(<<"s", "t", "a", "t", "u", "s">>, Str(<<"a", "c", "t", "i", "v", "e">>))>>),
              Obj(<<Prop(<<"e", "m", "a", "i", "l">>, Bool(TRUE)),
                    Prop(<<"p", "r", "o", "f", "i", "l", "e">>, Obj(<<Prop(strSelect,
                                               Obj(<<Prop(<<"b", "i", "o">>, Bool(TRUE))>>))>>))>>),
              Obj(<<Prop(<<"p", "o", "s", "t", "s">>, Obj(<<Prop(strInclude,
                                             Obj(<<Prop(<<"c", "o", "m", "m", "e", "n", "t", "s">>, Bool(TRUE))>>))>>))>>),
              Obj(<<Prop(<<"s", "e", "c", "r", "e", "t">>, Bool(TRUE))>>),
              Arr(<<Obj(<<Prop(<<"n", "a", "m", "e">>, Str(strAsc))>>)>>),
              IntNum(20), IntNum(5))

EmptyQuery == Obj(<< >>)

\* The calls mergeQueries(base, incoming, options) of the model; options is
\* undefined when the third argument is not given.
MergeCalls ==
  {<<QueryObject(bw, Undefined, Undefined, Undefined, Undefined, Undefined, Undefined),
     QueryObject(iw, Undefined, Undefined, Undefined, Undefined, Undefined, Undefined),
     op>> :
     bw \in WhereTrees, iw \in WhereTrees,
     op \in {Undefined, EmptyQuery}
            \cup {StrategyOptions(ws, Undefined, Undefined, Undefined, Undefined) :
                    ws \in WhereStrategies}}
  \cup {<<QueryObject(Undefined, bs, Undefined, Undefined, Undefined, Undefined, Undefined),
          QueryObject(Undefined, is, Undefined, Undefined, Undefined, Undefined, Undefined),
          op>> :
          bs \in SelectTrees, is \in SelectTrees,
          op \in {Undefined}
                 \cup {StrategyOptions(Undefined, ss, Undefined, Undefined, Undefined) :
                         ss \in TreeStrategies}}
  \cup {<<QueryObject(Undefined, bs, bi, bo, Undefined, Undefined, Undefined),
          QueryObject(Undefined, is, ii, io, Undefined, Undefined, Undefined),
          StrategyOptions(Undefined, ss, ns, Undefined, ms)>> :
          bs \in {Undefined, CompleteDefault.v[2].v},
          bi \in IncludeTrees, bo \in OmitTrees,
          is \in {Undefined, CompleteParsed.v[2].v},
          ii \in IncludeTrees, io \in OmitTrees,
          ss \in TreeStrategies, ns \in TreeStrategies, ms \in TreeStrategies}
  \cup {<<QueryObject(Undefined, Undefined, Undefined, Undefined, bo, Undefined, Undefined),
          QueryObject(Undefined, Undefined, Undefined, Undefined, io, Undefined, Undefined),
          op>> :
          bo \in OrderByLists, io \in OrderByLists,
          op \in {Undefined}
                 \cup {StrategyOptions(Undefined, Undefined, Undefined, os, Undefined) :
                         os \in OrderByStrategies}}
  \cup {<<QueryObject(Undefined, Undefined, Undefined, Undefined, Undefined, bs, bt),
          QueryObject(Undefined, Undefined, Undefined, Undefined, Undefined, is, it),
          Undefined>> :
          bs \in SkipValues, bt \in TakeValues, is \in SkipValues, it \in TakeValues}
  \cup {<<b, i, op>> :
          b \in {CompleteDefault, EmptyQuery},
          i \in {CompleteParsed, EmptyQuery,
                 QueryObject(Obj(<<Prop(<<"s", "t", "a", "t", "u", "s">>, Str(<<"a", "c", "t", "i", "v", "e">>))>>), Undefined, Undefined,
                             Undefined, Arr(<< >>), IntNum(0), Undefined)},
          op \in AllStrategyOptions}

\* The parsed queries of the later merge.
LaterQueries ==
  {EmptyQuery,
   QueryObject(Obj(<<Prop(<<"r", "o", "l", "e">>, Str(<<"a", "d", "m", "i", "n">>))>>),
               Obj(<<Prop(<<"n", "a", "m", "e">>, Bool(TRUE))>>),
               Undefined, Undefined,
               Arr(<<Obj(<<Prop(<<"i", "d">>, Str(strAsc))>>)>>),
               Undefined, IntNum(1))}

\* The value the caller writes into the result it got.
Marker == Str(<<"c", "h", "a", "n", "g", "e", "d">>)

strTouched == <<"t", "o", "u", "c", "h", "e", "d">>

MergeInit ==
  /\ \E call \in MergeCalls :
       \E base \in {StoreTree(<< >>, call[1])} :
         \E incoming \in {StoreTree(base.H, call[2])} :
           /\ heap = incoming.H
           /\ defaultQuery = base.ref
           /\ parsedQuery = incoming.ref
           /\ mergeOptions = call[3]
           /\ mergeInputs = [base |-> call[1], incoming |-> call[2]]
  /\ merged = NotCalled
  /\ mutation = NotCalled
  /\ laterQuery = NotCalled
  /\ mergedAgain = NotCalled
  /\ ParserIdle
  /\ SerializerIdle

\* const result = mergeQueries(defaultQuery, parsedQuery, options)
Merge ==
  /\ merged = NotCalled
  /\ \E call \in {mergeQueries(heap, defaultQuery, parsedQuery, mergeOptions)} :
       /\ heap' = call.H
       /\ merged' = [called |-> TRUE, ref |-> call.ref, cellsBefore |-> Len(heap)]
  /\ UNCHANGED <<defaultQuery, parsedQuery, mergeOptions, mergeInputs,
                 mutation, laterQuery, mergedAgain>>
  /\ UNCHANGED <<parserVars, serializerVars>>

\* The caller changes an object or an array it reaches from the result:
\* it sets a property, new or existing, or pushes an item.
Mutate ==
  /\ merged # NotCalled
  /\ mutation = NotCalled
  /\ mergedAgain = NotCalled
  /\ \E a \in Reachable(heap, merged.ref) :
       IF heap[a].t = "object"
       THEN \E k \in OwnKeySet(heap[a]) \cup {strTouched} :
              /\ heap' = SetProp(heap, Ref(a), k, Marker)
              /\ mutation' = [called |-> TRUE, cell |-> a, key |-> k]
       ELSE /\ heap' = [heap EXCEPT ![a] = Arr(Append(@.v, Marker))]
            /\ mutation' = [called |-> TRUE, cell |-> a, key |-> strLength]
  /\ UNCHANGED <<defaultQuery, parsedQuery, mergeOptions, mergeInputs, merged,
                 laterQuery, mergedAgain>>
  /\ UNCHANGED <<parserVars, serializerVars>>

\* const later = mergeQueries(defaultQuery, laterQuery, options) with the
\* same default query and a parsed query built for this call.
MergeAgain ==
  /\ merged # NotCalled
  /\ mergedAgain = NotCalled
  /\ \E tree \in LaterQueries :
       \E later \in {StoreTree(heap, tree)} :
         \E call \in {mergeQueries(later.H, defaultQuery, later.ref, mergeOptions)} :
           /\ heap' = call.H
           /\ laterQuery' = [called |-> TRUE, tree |-> tree, ref |-> later.ref]
           /\ mergedAgain' = [called |-> TRUE, ref |-> call.ref]
  /\ UNCHANGED <<defaultQuery, parsedQuery, mergeOptions, mergeInputs, merged, mutation>>
  /\ UNCHANGED <<parserVars, serializerVars>>

MergeNext == Merge \/ Mutate \/ MergeAgain

MergeSpec == MergeInit /\ [][MergeNext]_vars

-----------------------------------------------------------------------------
(* Notions used to state the properties of mergeQueries                    *)

\* The first call has returned and the caller has done nothing since.
JustMerged == merged # NotCalled /\ mutation = NotCalled /\ mergedAgain = NotCalled

\* The arguments as the caller wrote them, and the result read as a tree.
BaseTree == mergeInputs.base

IncomingTree == mergeInputs.incoming

MergedTree == Reify(heap, merged.ref)

\* The strategy given in the options under name, undefined when not given.
StrategyGiven(name) ==
  IF IsObj(mergeOptions) THEN OwnGet(mergeOptions, name) ELSE Undefined

\* The top-level key union of two objects, incoming's value for a key of both.
KeyUnion(b, i) ==
  Obj([n \in 1..Len(b.v) |->
         IF HasOwn(i, b.v[n].k) THEN Prop(b.v[n].k, OwnGet(i, b.v[n].k)) ELSE b.v[n]]
      \o SelectSeq(i.v, LAMBDA pr : ~HasOwn(b, pr.k)))

\* The deep merge of two trees as the specification defines it: a key of
\* one side keeps its value, a key of both is merged when both values are
\* plain objects and takes incoming's value otherwise.
RECURSIVE DeepMergeOf(_, _)
DeepMergeOf(b, i) ==
  Obj([n \in 1..Len(b.v) |->
         IF ~HasOwn(i, b.v[n].k) THEN b.v[n]
         ELSE IF IsObj(b.v[n].v) /\ IsObj(OwnGet(i, b.v[n].k))
              THEN Prop(b.v[n].k, DeepMergeOf(b.v[n].v, OwnGet(i, b.v[n].k)))
         ELSE Prop(b.v[n].k, OwnGet(i, b.v[n].k))]
      \o SelectSeq(i.v, LAMBDA pr : ~HasOwn(b, pr.k)))

NonEmptyList(x) == x.t = "array" /\ Len(x.v) > 0

-----------------------------------------------------------------------------
(* C14: the where merge                                                    *)

\* C14: when incoming has a where and base has none the result's where is
\* incoming's where under every strategy; when both have one, 'replace'
\* gives incoming's where, 'and' gives {AND: [base.where, incoming.where]}
\* and 'spread' or no strategy gives the top-level key union in which
\* incoming's value wins.
C14_WhereMerge ==
  (JustMerged /\ IsObj(OwnGet(IncomingTree, strWhere))) =>
    With(OwnGet(BaseTree, strWhere), LAMBDA b :
      With(OwnGet(IncomingTree, strWhere), LAMBDA i :
        DeepEqual(OwnGet(MergedTree, strWhere),
                  IF ~IsObj(b) THEN i
                  ELSE IF StrategyGiven(strWhereStrategy) = Str(strReplace) THEN i
                  ELSE IF StrategyGiven(strWhereStrategy) = Str(strAnd)
                       THEN Obj(<<Prop(strAND, Arr(<<b, i>>))>>)
                  ELSE KeyUnion(b, i))))

\* Incoming has a where, base has none and the strategy is 'and'.
C14_Witness ==
  /\ JustMerged
  /\ IsObj(OwnGet(IncomingTree, strWhere))
  /\ ~IsObj(OwnGet(BaseTree, strWhere))
  /\ StrategyGiven(strWhereStrategy) = Str(strAnd)

-----------------------------------------------------------------------------
(* C15: the deep merge of select, include and omit                         *)

\* The claim of C15 for one of the three fields and its strategy option.
TreeMerged(field, strategyName) ==
  With(OwnGet(BaseTree, field), LAMBDA b :
    With(OwnGet(IncomingTree, field), LAMBDA i :
      (IsObj(b) /\ IsObj(i)) =>
        DeepEqual(OwnGet(MergedTree, field),
                  IF StrategyGiven(strategyName) = Str(strReplace) THEN i
                  ELSE DeepMergeOf(b, i))))

\* C15: for each of select, include and omit that both sides have, the
\* result's tree is incoming's tree under that field's 'replace' strategy
\* and otherwise the recursive merge of the two trees, whatever the
\* strategies of the other fields.
C15_DeepMerge ==
  JustMerged =>
    /\ TreeMerged(strSelect, strSelectStrategy)
    /\ TreeMerged(strInclude, strIncludeStrategy)
    /\ TreeMerged(strOmit, strOmitStrategy)

\* Both selects hold a nested object under the same key and are merged,
\* while include is replaced.
C15_Witness ==
  /\ JustMerged
  /\ StrategyGiven(strSelectStrategy) # Str(strReplace)
  /\ StrategyGiven(strIncludeStrategy) = Str(strReplace)
  /\ IsObj(OwnGet(BaseTree, strInclude)) /\ IsObj(OwnGet(IncomingTree, strInclude))
  /\ IsObj(OwnGet(BaseTree, strSelect)) /\ IsObj(OwnGet(IncomingTree, strSelect))
  /\ \E k \in OwnKeySet(OwnGet(BaseTree, strSelect)) :
       /\ IsObj(OwnGet(OwnGet(BaseTree, strSelect), k))
       /\ IsObj(OwnGet(OwnGet(IncomingTree, strSelect), k))

-----------------------------------------------------------------------------
(* C16: the orderBy merge                                                  *)

-----------------------------------------------------------------------------
(* C17: the pagination merge                                               *)

\* C17: the result's skip is incoming's skip when incoming defines it, 0
\* included, and base's skip otherwise; the same holds for take; no
\* strategy option changes this.
C17_Pagination ==
  JustMerged =>
    \A field \in {strSkip, strTake} :
      OwnGet(MergedTree, field) =
        (IF HasOwn(IncomingTree, field) THEN OwnGet(IncomingTree, field)
         ELSE OwnGet(BaseTree, field))

\* Incoming's skip is 0 and base's skip is another number.
C17_Witness ==
  /\ JustMerged
  /\ OwnGet(IncomingTree, strSkip) = IntNum(0)
  /\ OwnGet(BaseTree, strSkip) = IntNum(20)

-----------------------------------------------------------------------------
(* C18: the frame rule                                                     *)

QueryFields == {strWhere, strSelect, strInclude, strOmit, strOrderBy, strSkip, strTake}

\* C18: a field absent from incoming is in the result what it is in base,
\* absent when base has none, under every combination of strategies; with
\* an empty incoming the result is deep-equal to base.
C18_Frame ==
  JustMerged =>
    /\ \A field \in QueryFields :
         ~HasOwn(IncomingTree, field) =>
           /\ HasOwn(MergedTree, field) <=> HasOwn(BaseTree, field)
           /\ DeepEqual(OwnGet(MergedTree, field), OwnGet(BaseTree, field))
    /\ IncomingTree = EmptyQuery => DeepEqual(MergedTree, BaseTree)

\* A base with all seven fields merged with an empty incoming under
\* strategies that are all 'replace'.
C18_Witness ==
  /\ JustMerged
  /\ IncomingTree = EmptyQuery
  /\ BaseTree = CompleteDefault
  /\ mergeOptions = StrategyOptions(Str(strReplace), Str(strReplace), Str(strReplace),
                                    Str(strReplace), Str(strReplace))

-----------------------------------------------------------------------------
(* C19: the arguments are not mutated                                      *)

\* C19: when mergeQueries returns, base and incoming read from the heap
\* are what the caller wrote, at every depth, and the object returned is a
\* cell created by the call, neither base nor incoming.
C19_NoMutation ==
  JustMerged =>
    /\ Reify(heap, defaultQuery) = BaseTree
    /\ Reify(heap, parsedQuery) = IncomingTree
    /\ merged.ref.v > merged.cellsBefore
    /\ merged.ref \notin {defaultQuery, parsedQuery}

\* Both sides hold a select with a nested object under the same key, so
\* that deepMerge recurses, and both hold a where.
C19_Witness ==
  /\ JustMerged
  /\ BaseTree = CompleteDefault
  /\ IncomingTree = CompleteParsed
  /\ StrategyGiven(strSelectStrategy) = Str(strMerge)

-----------------------------------------------------------------------------
(* C20: merges do not contaminate each other                               *)

\* What mergeQueries returns for these arguments when nothing else has
\* happened: the call on a heap that holds the two arguments only.
FreshMerge(baseTree, incomingTree, optionsArg) ==
  With(StoreTree(<< >>, baseTree), LAMBDA b :
    With(StoreTree(b.H, incomingTree), LAMBDA i :
      With(mergeQueries(i.H, b.ref, i.ref, optionsArg), LAMBDA call :
        Reify(call.H, call.ref))))

\* C20: every cell reachable from the result of a merge was created by
\* that merge; after the caller changes something it reaches from the
\* result, base is what it was; and a later merge of base with another
\* parsed query returns what it returns when the first merge never
\* happened.
C20_NoContamination ==
  /\ JustMerged =>
       \A a \in Reachable(heap, merged.ref) : a > merged.cellsBefore
  /\ mutation # NotCalled => Reify(heap, defaultQuery) = BaseTree
  /\ mergedAgain # NotCalled =>
       Reify(heap, mergedAgain.ref) = FreshMerge(BaseTree, laterQuery.tree, mergeOptions)

-----------------------------------------------------------------------------
(* C21: parseQuery keeps no state between calls                            *)

\* The result of parseQuery for a raw map when no call preceded it.
FirstCallResult(rawArg) == parseQuery(rawArg, PristinePrototype).result

\* C21: no call of parseQuery changes Object.prototype, the one object
\* that outlives the call besides its argument and its result, and the
\* second call of a sequence returns for its raw map what a first call
\* returns for it.
C21_Stateless ==
  /\ Called => objectPrototype = PristinePrototype
  /\ phase = "reparsed" => secondParseResult = FirstCallResult(reconstructedParams)

-----------------------------------------------------------------------------
(* C22: the key order of the raw map                                       *)

\* The raw maps built from the same entries assigned in every order.
Reorderings(rawArg) ==
  {RawObject([i \in 1..Len(rawArg.v) |-> rawArg.v[p[i]]]) :
     p \in Permutations(1..Len(rawArg.v))}

\* Two results with the same success, deep-equal data and the same errors.
SameResult(r1, r2) ==
  /\ r1.success = r2.success
  /\ DeepEqual(r1.data, r2.data)
  /\ {r1.errors[i] : i \in 1..Len(r1.errors)} = {r2.errors[i] : i \in 1..Len(r2.errors)}

\* C22: a raw map with the entries of raw in another order parses to a
\* result deep-equal to that of raw, filter paths that are dot-prefixes of
\* one another included.
C22_KeyOrder ==
  (phase = "parsed" /\ IsObj(raw)) =>
    \A other \in Reorderings(raw) : SameResult(FirstCallResult(other), result)

-----------------------------------------------------------------------------
(* C23: the sort grammar                                                   *)

\* C23: a supplied sort string that is a comma-separated list of terms
\* token or token:dir, dir being asc or desc in any letter case, gets no
\* sort error and on success every direction in lower case; every other
\* sort string gives success=false with a sort error.
C23_SortGrammar ==
  (Called /\ SortSupplied /\ OwnGet(raw, strSort).t = "string") =>
    IF SortInvalid(OwnGet(raw, strSort))
    THEN ~result.success /\ strSort \in ErrorKeys(result.errors)
    ELSE /\ strSort \notin ErrorKeys(result.errors)
         /\ result.success =>
              \A i \in 1..Len(SortTerms) :
                \E field \in OwnKeySet(OrderByOf(result).v[i]) :
                  OwnGet(OrderByOf(result).v[i], field) =
                    Str(IF Includes(SortTerms[i], ":")
                        THEN ToLowerCase(Drop(SortTerms[i], IndexOf(SortTerms[i], ":")))
                        ELSE strAsc)

-----------------------------------------------------------------------------
(* C24: a leaf that a later path uses as a prefix                          *)

\* The filters keys of raw in the order in which they are enumerated.
OrderedFilterKeys ==
  IF IsObj(raw) THEN SelectSeq(OwnKeys(raw), LooksLikeFilterKey) ELSE << >>

\* Two paths meet at a node: one is a dot-prefix of the other.
Contesting(p, q) == IsPrefix(p, q) \/ IsPrefix(q, p)

\* No path written after paths[j] meets it at a node.
WrittenLast(paths, j) ==
  \A m \in (j + 1)..Len(paths) : ~Contesting(paths[j], paths[m])

FilterPathsInOrder == [j \in 1..Len(OrderedFilterKeys) |-> SegmentsOf(OrderedFilterKeys[j])]

FieldPathsInOrder ==
  IF FieldsSupplied THEN [j \in 1..Len(KeptEntries) |-> Split(KeptEntries[j], ".")]
  ELSE << >>

\* paths[j] meets a path written before it and none written after it.
ContestedLast(paths, j) ==
  /\ WrittenLast(paths, j)
  /\ \E i \in 1..(j - 1) : Contesting(paths[i], paths[j])

\* C24: a call in which a filter path runs through a node written earlier
\* as a leaf does not fail on that node; in a successful result every
\* filter path written last at a contested node holds its coerced value in
\* where, below plain objects that replace the leaves written earlier on
\* its way, and every field path written last at a contested node is in
\* select below {select: ...} wrappers that replace the earlier leaves.
C24_LeafToSubtree ==
  (Called /\ IsObj(raw)) =>
    /\ (\E j \in 1..Len(FilterPathsInOrder) : ContestedLast(FilterPathsInOrder, j)) =>
         strGeneral \notin ErrorKeys(result.errors)
    /\ result.success =>
         /\ \A j \in 1..Len(OrderedFilterKeys) :
              ContestedLast(FilterPathsInOrder, j) =>
                /\ StoredLeaf(OrderedFilterKeys[j]) # Undefined
                /\ CoercedFrom(OwnGet(raw, OrderedFilterKeys[j]),
                               StoredLeaf(OrderedFilterKeys[j]))
         /\ \A j \in 1..Len(FieldPathsInOrder) :
              ContestedLast(FieldPathsInOrder, j) =>
                /\ HasData(strSelect)
                /\ SelectHolds([own |-> OwnGet(result.data, strSelect), P |-> objectPrototype],
                               OwnRoot, FieldPathsInOrder[j])

-----------------------------------------------------------------------------
(* C25: the type of the filter leaves                                      *)

\* C25: in a successful result every leaf of the where tree is a boolean,
\* a number or a string, whatever the types of the values of raw.
C25_LeafTypes ==
  (Called /\ result.success /\ HasData(strWhere) /\ IsObj(WhereOf(result))) =>
    \A path \in LeafPaths(WhereOf(result)) :
      OwnPathGet(WhereOf(result), path).t \in {"boolean", "number", "string"}

-----------------------------------------------------------------------------
(* C26: the keys of the select tree                                        *)

\* Every key of a select node is a token, and below a key that holds a
\* wrapper the same is true of the node under the wrapper's select.
RECURSIVE TokenKeys(_)
TokenKeys(node) ==
  \A i \in 1..Len(node.v) :
    /\ IsToken(node.v[i].k)
    /\ IsObj(node.v[i].v) =>
         \A j \in 1..Len(node.v[i].v.v) :
           /\ node.v[i].v.v[j].k = strSelect
           /\ IsObj(node.v[i].v.v[j].v) => TokenKeys(node.v[i].v.v[j].v)

\* C26: in a successful result every key of the select tree, at every
\* depth and the wrapper key select apart, is a non-empty token over
\* [A-Za-z0-9_].
C26_SelectKeys ==
  (Called /\ result.success /\ HasData(strSelect) /\ IsObj(OwnGet(result.data, strSelect))) =>
    TokenKeys(OwnGet(result.data, strSelect))

-----------------------------------------------------------------------------
(* C27: parseQuery does not mutate its input                               *)

\* C27: after the call the raw map and every value reachable from it are
\* deep-equal to what the caller passed, an object given as the value of a
\* filters key whose path is a dot-prefix of another's included.
C27_InputUnchanged ==
  Called => DeepEqual(rawAfterCall, raw)

-----------------------------------------------------------------------------
(* C28: flattening loses no filter leaf                                    *)

\* C28: when serializeQuery returns for a filters object, the string has
\* as many filters[...] pairs as filters has leaves that are neither null
\* nor undefined, and no two of the pairs have the same name.
C28_NoLeafLost ==
  (Returned /\ IsObj(GivenFilters) /\ ~PrettyPrintAsked) =>
    /\ Len(FilterPairs) = Cardinality(EmittedLeaves)
    /\ \A i, j \in 1..Len(FilterPairs) :
         i # j => FilterPairs[i].k # FilterPairs[j].k

-----------------------------------------------------------------------------
(* C29: the errors of serializeQuery                                       *)

\* C29: whatever serializeQuery raises is the wrapped validation error,
\* and for options that pass the schema, page: null and limit: null
\* included, the call returns a string.
C29_OnlyWrappedError ==
  SerializerCalled =>
    /\ serialized.outcome.threw => serialized.outcome.wrapped
    /\ ValidOptions => Returned

-----------------------------------------------------------------------------
(* C30: strict pagination input                                            *)

\* The whole string is the decimal spelling of an integer of at least 1.
WholeInteger(s) == IsDigits(s) /\ DigitsToInt(s) >= 1

\* C30: a page or limit given as a string is accepted, without an error
\* under its name, only when the whole string spells an integer of at
\* least 1; every other string gives success=false with an error under
\* the name of the field.
C30_StrictPagination ==
  (Called /\ IsObj(raw)) =>
    \A k \in {strPage, strLimit} :
      (HasOwn(raw, k) /\ OwnGet(raw, k).t = "string") =>
        IF WholeInteger(OwnGet(raw, k).v)
        THEN k \notin ErrorKeys(result.errors)
        ELSE ~result.success /\ k \in ErrorKeys(result.errors)

====
